---- MODULE Spec2Model ----
(***************************************************************************)
(* Model of the contract analyzer: PDF text acquisition                    *)
(* (utils/pdf_processor.py), the LLM task functions (utils/ai_analyzer.py  *)
(* and page_modules/factory_test_comparison.py), the product grouping      *)
(* validator, the tender merge and the batch pages (page_modules/*.py).    *)
(*                                                                         *)
(* A text is a sequence of tokens.  The tokens " " and "\n" are            *)
(* whitespace, every other token stands for a run of non-whitespace        *)
(* characters (an error sentinel such as "[PDF Error: Empty upload]" is    *)
(* one token).                                                             *)
(***************************************************************************)
EXTENDS Integers, Sequences, FiniteSets, TLC

\* ------------------------------------------------------------------ bounds
MaxPages == 2

\* ------------------------------------------------------------ text helpers
Whitespace == {" ", "\n"}

RECURSIVE LStrip(_)
LStrip(s) ==
    IF s = <<>> THEN <<>>
    ELSE IF Head(s) \in Whitespace THEN LStrip(Tail(s)) ELSE s

RECURSIVE RStrip(_)
RStrip(s) ==
    IF s = <<>> THEN <<>>
    ELSE IF s[Len(s)] \in Whitespace THEN RStrip(SubSeq(s, 1, Len(s) - 1)) ELSE s

\* str.strip()
Strip(s) == RStrip(LStrip(s))

\* ------------------------------------------------- utils/pdf_processor.py
PdfReadError == <<"[PDF Read Error: e]">>
PdfEmptyUpload == <<"[PDF Error: Empty upload]">>
OcrNoText == <<"[OCR Error: No text extracted from any page]">>
OcrError == <<"[OCR Error: e]">>

\* what page.get_text() can give for one page
PageTexts == {<<>>, <<" ">>, <<"a">>}

VARIABLES
    pc,                     \* position inside extract_text_from_pdf
    pdf_bytes,              \* "none" | "empty" | "data"
    tmp_exists,             \* the NamedTemporaryFile is on disk
    n_pages,                \* pages of the opened document
    page,                   \* pages consumed by the running loop
    full_text,
    ocr_text,
    exc,                    \* an exception is propagating
    ret,                    \* returned string, <<"<none>">> before return
    raised,                 \* the call ended by raising
    transformers_available, \* _transformers_available
    deepseek_model,         \* _deepseek_model is not None
    temp_imgs,              \* page numbers N whose temp_page_N.png exists
    engine_log,             \* <<page, engine, outcome>> in the order tried
    tmp_created,            \* history: the temp file was created in this call
    native_text,            \* history: concatenated native text
    native_done,            \* history: the native loop ran over all pages
    ocr_started             \* history: _extract_text_with_ocr was called

pdfVars == <<pc, pdf_bytes, tmp_exists, n_pages, page, full_text, ocr_text,
             exc, ret, raised, transformers_available, deepseek_model,
             temp_imgs, engine_log, tmp_created, native_text, native_done,
             ocr_started>>

NoRet == <<"<none>">>

PdfLocalsInit ==
    /\ pc = "read"
    /\ pdf_bytes = "none"
    /\ tmp_exists = FALSE
    /\ n_pages = 0
    /\ page = 0
    /\ full_text = <<>>
    /\ ocr_text = <<>>
    /\ exc = FALSE
    /\ ret = NoRet
    /\ raised = FALSE
    /\ engine_log = <<>>
    /\ tmp_created = FALSE
    /\ native_text = <<>>
    /\ native_done = FALSE
    /\ ocr_started = FALSE

PdfInit ==
    /\ PdfLocalsInit
    /\ transformers_available \in BOOLEAN
    /\ deepseek_model = FALSE
    /\ temp_imgs = {}

PdfOff ==
    /\ PdfLocalsInit
    /\ transformers_available = FALSE
    /\ deepseek_model = FALSE
    /\ temp_imgs = {}

\* the condition of line 71: `if not full_text.strip()`
NeedsOcrNoStrip(text) == text = <<>>
NeedsOcr(text) == Strip(text) = <<>>

\* lines 37-54: obtain the bytes
ReadBytes ==
    /\ pc = "read"
    /\ \E outcome \in {"raise", "none", "empty", "data"} :
         /\ pdf_bytes' = IF outcome = "raise" THEN "none" ELSE outcome
         /\ IF outcome = "raise"
              THEN ret' = PdfReadError /\ pc' = "done"
            ELSE IF outcome \in {"none", "empty"}
              THEN ret' = PdfEmptyUpload /\ pc' = "done"
            ELSE ret' = ret /\ pc' = "tmpfile"
    /\ UNCHANGED <<tmp_exists, n_pages, page, full_text, ocr_text, exc, raised,
                   transformers_available, deepseek_model, temp_imgs,
                   engine_log, tmp_created, native_text, native_done,
                   ocr_started>>

\* lines 58-60: NamedTemporaryFile(delete=False), tmp.write(pdf_bytes)
WriteTemp ==
    /\ pc = "tmpfile"
    /\ \E outcome \in {"create_raises", "write_raises", "ok"} :
         /\ tmp_exists' = (outcome # "create_raises")
         /\ tmp_created' = (outcome # "create_raises")
         /\ IF outcome = "ok"
              THEN pc' = "open" /\ UNCHANGED <<exc, raised>>
              ELSE pc' = "done" /\ exc' = TRUE /\ raised' = TRUE
    /\ UNCHANGED <<pdf_bytes, n_pages, page, full_text, ocr_text, ret,
                   transformers_available, deepseek_model, temp_imgs,
                   engine_log, native_text, native_done, ocr_started>>

\* line 64-65: doc = fitz.open(tmp_path); full_text = ""
OpenDoc ==
    /\ pc = "open"
    /\ \/ /\ exc' = TRUE                       \* not a document fitz can open
          /\ pc' = "finally"
          /\ UNCHANGED <<n_pages, page, full_text>>
       \/ /\ \E n \in 1..MaxPages : n_pages' = n
          /\ page' = 0
          /\ full_text' = <<>>
          /\ pc' = "native"
          /\ UNCHANGED exc
    /\ UNCHANGED <<pdf_bytes, tmp_exists, ocr_text, ret, raised,
                   transformers_available, deepseek_model, temp_imgs,
                   engine_log, tmp_created, native_text, native_done,
                   ocr_started>>

\* lines 66-68: full_text += page.get_text() for each page, doc.close()
NativePage ==
    /\ pc = "native"
    /\ IF page < n_pages
         THEN \/ /\ \E t \in PageTexts :
                      /\ full_text' = full_text \o t
                      /\ native_text' = native_text \o t
                 /\ page' = page + 1
                 /\ UNCHANGED <<pc, exc, native_done>>
              \/ /\ exc' = TRUE                \* page.get_text() raises
                 /\ pc' = "finally"
                 /\ UNCHANGED <<page, full_text, native_text, native_done>>
         ELSE /\ native_done' = TRUE
              /\ pc' = "check"
              /\ UNCHANGED <<page, full_text, native_text, exc>>
    /\ UNCHANGED <<pdf_bytes, tmp_exists, n_pages, ocr_text, ret, raised,
                   transformers_available, deepseek_model, temp_imgs,
                   engine_log, tmp_created, ocr_started>>

\* lines 71-72: the fallback trigger
CheckFallback ==
    /\ pc = "check"
    /\ IF NeedsOcr(full_text)
         THEN pc' = "ocr_open" /\ ocr_started' = TRUE
         ELSE pc' = "finally" /\ UNCHANGED ocr_started
    /\ UNCHANGED <<pdf_bytes, tmp_exists, n_pages, page, full_text, ocr_text,
                   exc, ret, raised, transformers_available, deepseek_model,
                   temp_imgs, engine_log, tmp_created, native_text,
                   native_done>>

\* line 96 of _extract_text_with_ocr: doc = fitz.open(pdf_path); ocr_text = ""
OcrOpen ==
    /\ pc = "ocr_open"
    /\ \/ /\ full_text' = OcrError             \* caught at line 157
          /\ pc' = "finally"
          /\ UNCHANGED <<page, ocr_text>>
       \/ /\ page' = 0
          /\ ocr_text' = <<>>
          /\ pc' = "ocr_page"
          /\ UNCHANGED full_text
    /\ UNCHANGED <<pdf_bytes, tmp_exists, n_pages, exc, ret, raised,
                   transformers_available, deepseek_model, temp_imgs,
                   engine_log, tmp_created, native_text, native_done,
                   ocr_started>>

\* outcomes of the DeepSeek block (lines 108-146) for one page
DeepSeekOutcomes ==
    IF ~transformers_available THEN {"unavailable"}
    ELSE (IF deepseek_model THEN {} ELSE {"load_raises"})
         \cup {"infer_raises", "empty", "text"}

\* outcomes of pytesseract.image_to_string (lines 149-154)
TesseractOutcomes == {"raise", "empty", "text"}

\* lines 99-154: one iteration of the page loop
OcrPage ==
    /\ pc = "ocr_page"
    /\ page < n_pages
    /\ LET page_num == page + 1 IN
       \/ /\ full_text' = OcrError             \* get_pixmap / Image.open raises
          /\ pc' = "finally"
          /\ UNCHANGED <<page, ocr_text, deepseek_model, temp_imgs, engine_log>>
       \/ \E ds \in DeepSeekOutcomes, tess \in TesseractOutcomes :
            LET infer == ds \in {"infer_raises", "empty", "text"}
                fallback == ds # "text"
                ds_txt == IF ds = "text" THEN <<"d", "\n">> ELSE <<>>
                ts_txt == IF fallback /\ tess = "text" THEN <<"t", "\n">> ELSE <<>>
                ds_log == IF ds # "unavailable"
                            THEN << <<page_num, "deepseek", ds>> >> ELSE <<>>
                ts_log == IF fallback
                            THEN << <<page_num, "tesseract", tess>> >> ELSE <<>>
            IN  /\ deepseek_model' = (deepseek_model \/ infer)
                /\ temp_imgs' = IF ds = "infer_raises" THEN temp_imgs \cup {page_num}
                                ELSE IF infer THEN temp_imgs \ {page_num}
                                ELSE temp_imgs
                /\ ocr_text' = ocr_text \o ds_txt \o ts_txt
                /\ engine_log' = engine_log \o ds_log \o ts_log
                /\ page' = page + 1
                /\ UNCHANGED <<pc, full_text>>
    /\ UNCHANGED <<pdf_bytes, tmp_exists, n_pages, exc, ret, raised,
                   transformers_available, tmp_created, native_text,
                   native_done, ocr_started>>

\* line 156: ocr_text if ocr_text.strip() else the sentinel
OcrResultUnchecked(text) == text
OcrResult(text) == IF Strip(text) # <<>> THEN text ELSE OcrNoText

\* line 156: the result of the OCR fallback, assigned at line 72
OcrReturn ==
    /\ pc = "ocr_page"
    /\ page = n_pages
    /\ full_text' = OcrResult(ocr_text)
    /\ pc' = "finally"
    /\ UNCHANGED <<pdf_bytes, tmp_exists, n_pages, page, ocr_text, exc, ret,
                   raised, transformers_available, deepseek_model, temp_imgs,
                   engine_log, tmp_created, native_text, native_done,
                   ocr_started>>

\* lines 74-79: finally: remove the temp file; then return or re-raise
Finally ==
    /\ pc = "finally"
    /\ tmp_exists' = FALSE
    /\ IF exc THEN raised' = TRUE /\ UNCHANGED ret
              ELSE ret' = full_text /\ UNCHANGED raised
    /\ pc' = "done"
    /\ UNCHANGED <<pdf_bytes, n_pages, page, full_text, ocr_text, exc,
                   transformers_available, deepseek_model, temp_imgs,
                   engine_log, tmp_created, native_text, native_done,
                   ocr_started>>

\* the next call of extract_text_from_pdf in the same process
NewCall ==
    /\ pc = "done"
    /\ pc' = "read"
    /\ pdf_bytes' = "none"
    /\ tmp_exists' = FALSE
    /\ n_pages' = 0
    /\ page' = 0
    /\ full_text' = <<>>
    /\ ocr_text' = <<>>
    /\ exc' = FALSE
    /\ ret' = NoRet
    /\ raised' = FALSE
    /\ engine_log' = <<>>
    /\ tmp_created' = FALSE
    /\ native_text' = <<>>
    /\ native_done' = FALSE
    /\ ocr_started' = FALSE
    /\ UNCHANGED <<transformers_available, deepseek_model, temp_imgs>>

PdfNext ==
    \/ ReadBytes
    \/ WriteTemp
    \/ OpenDoc
    \/ NativePage
    \/ CheckFallback
    \/ OcrOpen
    \/ OcrPage
    \/ OcrReturn
    \/ Finally
    \/ NewCall


\* --------------------------------------------------- utils/ai_analyzer.py
\* A JSON object is a function from its keys to value tokens: "null" is JSON
\* null, "v" a value the model supplied, every other token a literal of the
\* source.

\* bound on the number of keys the model leaves out / returns as null
MaxMissing == 2
MaxNull == 1

RECURSIVE SubsetsUpTo(_, _)
SubsetsUpTo(S, n) ==
    IF n = 0 THEN {{}}
    ELSE LET P == SubsetsUpTo(S, n - 1)
         IN  P \cup {p \cup {k} : p \in P, k \in S}

\* {**d, **o}
Merge(d, o) ==
    [k \in DOMAIN d \cup DOMAIN o |-> IF k \in DOMAIN o THEN o[k] ELSE d[k]]

\* parsed.setdefault(k, v) for every k, v of defaults
SetDefaultsOverwrite(parsed, defaults) == Merge(parsed, defaults)
SetDefaults(parsed, defaults) == Merge(defaults, parsed)

Tasks ==
    {"analyze_contract", "extract_client_and_products",
     "extract_client_and_products_from_invoices", "group_similar_products",
     "extract_specifications_from_text", "compare_specifications_with_ai",
     "analyze_tender_document", "analyze_tender_with_fields",
     "analyze_cooperation_agreement", "compare_contracts", "_ai_smart_compare"}

\* the JSON structure each prompt asks for (top-level keys)
Schema(t) ==
    CASE t = "analyze_contract" ->
           {"summary", "client_name", "contract_type", "start_date", "end_date",
            "products_services", "key_clauses", "risk_areas"}
      [] t = "extract_client_and_products" ->
           {"client_name", "products", "contract_type"}
      [] t = "extract_client_and_products_from_invoices" ->
           {"invoice_number", "invoice_date", "due_date", "currency",
            "total_amount", "subtotal", "tax_amount", "tax_rate_percent",
            "payment_terms", "po_number", "supplier_name", "supplier_address",
            "customer_name", "customer_address", "ship_to", "tax_id",
            "products", "contract_type", "notes"}
      [] t = "group_similar_products" -> {"groups"}
      [] t = "extract_specifications_from_text" ->
           {"document_type", "material_or_product", "revision_or_date",
            "parameters"}
      [] t = "compare_specifications_with_ai" -> {"summary", "comparisons"}
      [] t = "analyze_tender_document" ->
           {"german_summary", "german_bullets", "tender_fields",
            "key_requirements", "deliverables", "risks"}
      [] t = "analyze_tender_with_fields" ->
           {"extracted", "german_summary", "notes"}
      [] t = "analyze_cooperation_agreement" ->
           {"summary", "key_clauses", "risks", "recommendations"}
      [] t = "compare_contracts" ->
           {"summary", "deviations", "risks", "key_clauses", "recommendations"}
      [] t = "_ai_smart_compare" ->
           {"identified_specs", "identified_certificates", "comparisons",
            "summary"}

\* the return of the `if not azure_config.client` branch
NoClient(t) ==
    CASE t = "analyze_contract" -> [error |-> "credentials not configured"]
      [] t \in {"extract_client_and_products",
                "extract_client_and_products_from_invoices"} ->
           [client_name |-> "Credentials not configured",
            products |-> "[]",
            contract_type |-> "Credentials not configured",
            error |-> "credentials not configured"]
      [] t = "group_similar_products" -> [error |-> "credentials not configured"]
      [] t = "extract_specifications_from_text" ->
           [error |-> "credentials not configured",
            document_type |-> "unknown",
            material_or_product |-> "Not specified",
            revision_or_date |-> "Not specified",
            parameters |-> "[]"]
      [] t = "compare_specifications_with_ai" ->
           [error |-> "credentials not configured", comparisons |-> "[]"]
      [] t = "analyze_tender_document" ->
           [error |-> "credentials not configured", german_summary |-> "",
            german_bullets |-> "[]", tender_fields |-> "{}",
            key_requirements |-> "[]", risks |-> "[]", deliverables |-> "[]"]
      [] t = "analyze_tender_with_fields" ->
           [error |-> "credentials not configured", extracted |-> "{}",
            german_summary |-> "", notes |-> ""]
      [] t = "analyze_cooperation_agreement" ->
           [error |-> "credentials not configured", summary |-> "{}",
            key_clauses |-> "[]", risks |-> "[]", recommendations |-> "[]"]
      [] t = "compare_contracts" ->
           [error |-> "credentials not configured", summary |-> "{}",
            deviations |-> "[]", risks |-> "[]", key_clauses |-> "[]",
            recommendations |-> "[]"]
      [] t = "_ai_smart_compare" -> [error |-> "credentials not configured"]

\* the return of the `except Exception as e` branch
Fallback(t) ==
    CASE t = "analyze_contract" ->
           [error |-> "error: e", summary |-> "Analysis failed",
            client_name |-> "Unknown", contract_type |-> "Unknown",
            start_date |-> "Not specified", end_date |-> "Not specified",
            products_services |-> "[]", key_clauses |-> "[]",
            risk_areas |-> "[]"]
      [] t = "extract_client_and_products" ->
           [client_name |-> "Extraction failed", products |-> "[]",
            contract_type |-> "Unknown",
            total_estimated_value |-> "Not specified", error |-> "error: e"]
      [] t = "extract_client_and_products_from_invoices" ->
           [invoice_number |-> "Not specified", invoice_date |-> "Not specified",
            due_date |-> "Not specified", currency |-> "Not specified",
            total_amount |-> "Not specified", subtotal |-> "Not specified",
            tax_amount |-> "Not specified", tax_rate_percent |-> "Not specified",
            payment_terms |-> "Not specified", po_number |-> "Not specified",
            supplier_name |-> "Not specified",
            supplier_address |-> "Not specified",
            customer_name |-> "Extraction failed",
            customer_address |-> "Not specified", ship_to |-> "Not specified",
            tax_id |-> "Not specified", products |-> "[]",
            contract_type |-> "Unknown", notes |-> "Not specified",
            error |-> "error: e"]
      [] t = "group_similar_products" -> [error |-> "error: e", groups |-> "[]"]
      [] t = "extract_specifications_from_text" ->
           [error |-> "error: e", document_type |-> "unbekannt",
            material_or_product |-> "Nicht spezifiziert",
            revision_or_date |-> "Nicht spezifiziert", parameters |-> "[]"]
      [] t = "compare_specifications_with_ai" ->
           [error |-> "error: e", comparisons |-> "[]"]
      [] t = "analyze_tender_document" ->
           [error |-> "error: e", german_summary |-> "",
            german_bullets |-> "[]", tender_fields |-> "{}",
            key_requirements |-> "[]", risks |-> "[]", deliverables |-> "[]"]
      [] t = "analyze_tender_with_fields" ->
           [error |-> "error: e", extracted |-> "{desired: Nicht angegeben}",
            german_summary |-> "", notes |-> ""]
      [] t = "analyze_cooperation_agreement" ->
           [error |-> "error: e", summary |-> "{}", key_clauses |-> "[]",
            risks |-> "[]", recommendations |-> "[]"]
      [] t = "compare_contracts" ->
           [error |-> "error: e", summary |-> "{}", deviations |-> "[]",
            risks |-> "[]", key_clauses |-> "[]", recommendations |-> "[]"]
      [] t = "_ai_smart_compare" -> [error |-> "error: e"]

EmptyObject == [k \in {} |-> "v"]

\* the defaults a function sets on the parsed object (setdefault); a function
\* that returns json.loads(...) as it is sets none
Defaults(t) ==
    CASE t = "extract_client_and_products_from_invoices" ->
           [invoice_number |-> "Not specified", invoice_date |-> "Not specified",
            due_date |-> "Not specified", currency |-> "Not specified",
            total_amount |-> "Not specified", subtotal |-> "Not specified",
            tax_amount |-> "Not specified", tax_rate_percent |-> "Not specified",
            payment_terms |-> "Not specified", po_number |-> "Not specified",
            supplier_name |-> "Not specified",
            supplier_address |-> "Not specified",
            customer_name |-> "Not specified",
            customer_address |-> "Not specified", ship_to |-> "Not specified",
            tax_id |-> "Not specified", contract_type |-> "Not specified",
            notes |-> "Not specified", products |-> "[]"]
      [] t = "extract_specifications_from_text" ->
           [document_type |-> "unbekannt",
            material_or_product |-> "Nicht spezifiziert",
            revision_or_date |-> "Nicht spezifiziert", parameters |-> "[]"]
      [] t = "compare_specifications_with_ai" ->
           [summary |-> "", comparisons |-> "[]"]
      [] t = "analyze_tender_document" ->
           [german_summary |-> "", german_bullets |-> "[]",
            tender_fields |-> "{}", key_requirements |-> "[]",
            risks |-> "[]", deliverables |-> "[]"]
      [] t = "analyze_tender_with_fields" ->
           [german_summary |-> "", notes |-> ""]
      [] t = "analyze_cooperation_agreement" ->
           [summary |-> "{}", key_clauses |-> "[]", risks |-> "[]",
            recommendations |-> "[]"]
      [] t = "compare_contracts" ->
           [summary |-> "{}", deviations |-> "[]", risks |-> "[]",
            key_clauses |-> "[]", recommendations |-> "[]"]
      [] OTHER -> EmptyObject

\* dict.get(k, dflt)
Get(d, k, dflt) == IF k \in DOMAIN d THEN d[k] ELSE dflt

\* an exception inside the try block after json.loads (caught by the except
\* branch): iterating over a products / parameters / groups value that is null
PostRaises(t, parsed) ==
    CASE t = "extract_client_and_products_from_invoices" ->
           \* for item in parsed.get("products", [])
           parsed["products"] = "null"
      [] t = "extract_specifications_from_text" ->
           \* for p in data.get("parameters", [])
           parsed["parameters"] = "null"
      [] t = "group_similar_products" ->
           \* for group in result.get("groups", [])
           Get(parsed, "groups", "[]") = "null"
      [] OTHER -> FALSE

\* the rest of the try block after the defaults were set
PostProcess(t, parsed, flags) ==
    CASE t = "group_similar_products" ->
           \* return {"groups": validated_groups}
           [groups |-> Get(parsed, "groups", "[]")]
      [] t = "analyze_tender_document" ->
           [k \in DOMAIN parsed |->
              IF k = "tender_fields"
                THEN (IF parsed[k] \in {"null", "{}"} THEN "{tender_defaults}"
                      ELSE parsed[k])
              ELSE IF k \in {"german_bullets", "key_requirements", "risks",
                             "deliverables"} /\ parsed[k] = "null"
                THEN "['None']"
              ELSE parsed[k]]
      [] t = "analyze_tender_with_fields" ->
           \* extracted = parsed.get("extracted", {}) or {}; fields defaulted
           [k \in DOMAIN parsed \cup {"extracted"} |->
              IF k = "extracted"
                THEN (IF Get(parsed, k, "null") = "null"
                      THEN "{desired: Nicht angegeben}" ELSE parsed[k])
              ELSE parsed[k]]
      [] t = "analyze_cooperation_agreement" ->
           [k \in DOMAIN parsed |->
              IF k = "risks" /\ "risk" \notin flags THEN "[]"
              ELSE IF k = "recommendations" /\ "recommendations" \notin flags
                THEN "[]"
              ELSE parsed[k]]
      [] t = "compare_contracts" ->
           [k \in DOMAIN parsed |->
              IF k = "deviations" /\ "deviation" \notin flags THEN "[]"
              ELSE IF k = "risks" /\ "risk" \notin flags THEN "[]"
              ELSE IF k = "recommendations" /\ "recommendations" \notin flags
                THEN "[]"
              ELSE parsed[k]]
      [] OTHER -> parsed

\* the functions that use the parsed value as a dict (setdefault / get);
\* the others return json.loads(...) whatever it is
UsesDict(t) ==
    t \notin {"analyze_contract", "extract_client_and_products",
              "_ai_smart_compare"}

\* One task function.  resp.kind: "no_client" (azure_config.client is falsy),
\* "raise" (the API call raises), "invalid" (json.loads raises), "array" (a
\* JSON value that is not an object), "object" (resp.obj).  The result is
\* [kind |-> "dict", d |-> ...] or, for a returned non-dict value,
\* [kind |-> "list", d |-> EmptyObject].
TaskFunction(t, resp, flags) ==
    CASE resp.kind = "no_client" -> [kind |-> "dict", d |-> NoClient(t)]
      [] resp.kind \in {"raise", "invalid"} -> [kind |-> "dict", d |-> Fallback(t)]
      [] resp.kind = "array" ->
           IF UsesDict(t) THEN [kind |-> "dict", d |-> Fallback(t)]
           ELSE [kind |-> "list", d |-> EmptyObject]
      [] resp.kind = "object" ->
           LET parsed == SetDefaults(resp.obj, Defaults(t))
           IN  IF PostRaises(t, parsed) THEN [kind |-> "dict", d |-> Fallback(t)]
               ELSE [kind |-> "dict", d |-> PostProcess(t, parsed, flags)]

VARIABLES
    task,           \* the task function called
    task_resp,      \* what the LLM call gives
    task_flags,     \* include_* options of the call
    task_result     \* the returned value, Pending before the return

taskVars == <<task, task_resp, task_flags, task_result>>

Pending == [kind |-> "pending", d |-> EmptyObject]

AllFlags == {"risk", "deviation", "recommendations"}

\* the objects the model can return for task t
Objects(t) ==
    UNION { UNION { { [k \in Schema(t) \ missing |->
                         IF k \in nulls THEN "null" ELSE "v"] }
                    : nulls \in SubsetsUpTo(Schema(t) \ missing, MaxNull) }
            : missing \in SubsetsUpTo(Schema(t), MaxMissing) \cup {Schema(t)} }

Responses(t) ==
    {[kind |-> k, obj |-> EmptyObject] : k \in {"no_client", "raise", "invalid", "array"}}
    \cup {[kind |-> "object", obj |-> o] : o \in Objects(t)}

TaskInit ==
    /\ task \in Tasks
    /\ task_resp \in Responses(task)
    /\ task_flags \in IF task \in {"analyze_cooperation_agreement", "compare_contracts"}
                        THEN SUBSET AllFlags ELSE {AllFlags}
    /\ task_result = Pending

TaskOff ==
    /\ task = "analyze_contract"
    /\ task_resp = [kind |-> "no_client", obj |-> EmptyObject]
    /\ task_flags = AllFlags
    /\ task_result = Pending

\* the call of the task function
CallTask ==
    /\ task_result = Pending
    /\ task_result' = TaskFunction(task, task_resp, task_flags)
    /\ UNCHANGED <<task, task_resp, task_flags>>

TaskNext == CallTask

\* ------------------------- utils/ai_analyzer.py: group_similar_products
MaxProducts == 2
MaxGroups == 1

Clients == {"A", "B"}
CanonicalNames == {"n1", "n2"}

RECURSIVE SeqsUpTo(_, _)
SeqsUpTo(S, n) ==
    IF n = 0 THEN {<<>>}
    ELSE LET P == SeqsUpTo(S, n - 1)
         IN  P \cup {Append(p, x) : p \in P, x \in S}

\* the product_ids lists the model can propose for n products: no id, one id
\* or two ids, each in range or just outside it
IdLists(n) ==
    LET R == (0 - 1)..n
    IN  {<<>>} \cup {<<a>> : a \in R} \cup {<<a, b>> : a \in R, b \in R}

ProposedGroups(n) ==
    {[product_ids |-> ids, canonical_name |-> c] :
        ids \in IdLists(n), c \in CanonicalNames}

VARIABLES
    products_list,  \* the client_name of each product, in list order
    grp_resp,       \* what the LLM call gives: [kind, groups]
    grp_result      \* the returned dict: [called, error, has_groups, groups]

groupVars == <<products_list, grp_resp, grp_result>>

\* lines 417-420: the clients of the ids that index into products_list
GroupClientsByProduct(products, ids) ==
    {pid \in {ids[j] : j \in 1..Len(ids)} : 0 <= pid /\ pid < Len(products)}
GroupClients(products, ids) ==
    {products[pid + 1] :
        pid \in {q \in {ids[j] : j \in 1..Len(ids)} : 0 <= q /\ q < Len(products)}}

\* lines 414-423: validated_groups
ValidatedGroups(products, groups) ==
    SelectSeq(groups,
              LAMBDA g : Cardinality(GroupClients(products, g.product_ids)) >= 2)

GroupNotCalled == [called |-> FALSE, error |-> FALSE, has_groups |-> FALSE, groups |-> <<>>]

\* lines 339-428
group_similar_products(products, resp) ==
    IF resp.kind = "no_client"
      THEN [called |-> TRUE, error |-> TRUE, has_groups |-> FALSE, groups |-> <<>>]
    ELSE IF products = <<>>
      THEN [called |-> TRUE, error |-> FALSE, has_groups |-> TRUE, groups |-> <<>>]
    ELSE IF resp.kind \in {"raise", "invalid"}
      THEN [called |-> TRUE, error |-> TRUE, has_groups |-> TRUE, groups |-> <<>>]
    ELSE [called |-> TRUE, error |-> FALSE, has_groups |-> TRUE,
          groups |-> ValidatedGroups(products, resp.groups)]

GroupInit ==
    /\ products_list \in SeqsUpTo(Clients, MaxProducts)
    /\ grp_resp \in
         {[kind |-> k, groups |-> <<>>] : k \in {"no_client", "raise", "invalid"}}
         \cup {[kind |-> "object", groups |-> gs] :
                 gs \in SeqsUpTo(ProposedGroups(Len(products_list)), MaxGroups)}
    /\ grp_result = GroupNotCalled

GroupOff ==
    /\ products_list = <<>>
    /\ grp_resp = [kind |-> "no_client", groups |-> <<>>]
    /\ grp_result = GroupNotCalled

CallGroup ==
    /\ ~grp_result.called
    /\ grp_result' = group_similar_products(products_list, grp_resp)
    /\ UNCHANGED <<products_list, grp_resp>>

GroupNext == CallGroup


\* ----------------- page_modules/tender_analysis.py: _merge_tender_analyses
MaxDocs == 3

TenderSentinel == "Nicht angegeben"
MergeFields == {"A", "B"}
\* the values a document's analysis can hold for a field; "<absent>" stands
\* for a field that is no key of its `extracted` dict
MergeValues == {"<absent>", "", TenderSentinel, "X", "Y"}

\* an `extracted` dict from a choice of one value (or absence) per field
ExtractedOf(choice) ==
    [f \in {g \in MergeFields : choice[g] # "<absent>"} |-> choice[f]]

ExtractedDicts == {ExtractedOf(c) : c \in [MergeFields -> MergeValues]}

VARIABLES
    merge_docs,     \* the `extracted` dict of each result, in input order
    merged          \* [done, extracted]: the merged_extracted returned

mergeVars == <<merge_docs, merged>>

\* lines 198-200: one later document folded into merged_extracted
MergeStepLastWins(acc, extracted) ==
    [f \in DOMAIN acc \cup DOMAIN extracted |->
        IF f \in DOMAIN extracted THEN extracted[f] ELSE acc[f]]
MergeStep(acc, extracted) ==
    [f \in DOMAIN acc \cup DOMAIN extracted |->
        IF f \in DOMAIN extracted
             /\ (f \notin DOMAIN acc \/ acc[f] = "" \/ acc[f] = TenderSentinel)
          THEN extracted[f]
          ELSE acc[f]]

RECURSIVE MergeFrom(_, _, _)
MergeFrom(acc, docs, k) ==
    IF k > Len(docs) THEN acc
    ELSE MergeFrom(MergeStep(acc, docs[k]), docs, k + 1)

\* lines 189-200: merged_extracted of _merge_tender_analyses
merge_tender_analyses(docs) ==
    IF docs = <<>> THEN EmptyObject
    ELSE MergeFrom(docs[1], docs, 2)

MergeInit ==
    /\ merge_docs \in SeqsUpTo(ExtractedDicts, MaxDocs)
    /\ merged = [done |-> FALSE, extracted |-> EmptyObject]

MergeOff ==
    /\ merge_docs = <<>>
    /\ merged = [done |-> FALSE, extracted |-> EmptyObject]

CallMerge ==
    /\ ~merged.done
    /\ merged' = [done |-> TRUE, extracted |-> merge_tender_analyses(merge_docs)]
    /\ UNCHANGED merge_docs

MergeNext == CallMerge

\* ------------------------------------------------------- the batch pages
\* One browser session on one page.  A run starts on n uploaded files; what
\* processing a file gives is chosen when the loop reaches it: `ext`, the
\* outcome of extract_text_from_pdf on it (a returned text or an escaping
\* exception), and `ai`, the outcome of the task function called on its text.
MaxFiles == 2

\* the name of the k-th uploaded file on the pages where names play no role
FileNameAt(k) == <<"file", k>>

\* outcomes of extract_text_from_pdf: it raises, returns an error sentinel, or
\* returns text (never an empty or all-whitespace string, see PdfNeverBlank)
ExtractResults ==
    {[raised |-> TRUE, text |-> <<>>],
     [raised |-> FALSE, text |-> OcrNoText],
     [raised |-> FALSE, text |-> <<"a">>]}

NoAi == [kind |-> "none", client |-> "<absent>", products |-> <<>>]

\* outcomes of extract_client_and_products: its fallback dict ("error"), a
\* JSON value that is not an object ("array"), or an object with a client
\* name and a product list
BulkAiOutcomes ==
    {[kind |-> "error", client |-> "Extraction failed", products |-> <<>>],
     [kind |-> "array", client |-> "<absent>", products |-> <<>>]}
    \cup {[kind |-> "ok", client |-> c, products |-> ps] :
            c \in Clients, ps \in {<<>>, <<"p">>}}

\* the task function is reached only with a text that is not blank
ReachesAi(e) == ~e.raised /\ Strip(e.text) # <<>>

BulkFiles(k) ==
    {[name |-> FileNameAt(k), ext |-> e, ai |-> a] :
        e \in {x \in ExtractResults : ReachesAi(x)}, a \in BulkAiOutcomes}
    \cup {[name |-> FileNameAt(k), ext |-> e, ai |-> NoAi] :
        e \in {x \in ExtractResults : ~ReachesAi(x)}}

VARIABLES
    configured,     \* azure_config.client is available
    n_files,        \* number of files uploaded for the running (or last) run
    uploaded,       \* the files the loop has reached, in upload order
    batch_pc,       \* "idle" | "loop" | "done", "aborted" (the handler
                    \* returned early), "crashed" (an exception left it)
    batch_log       \* history: <<"extract", k>>, <<"ai", k>>, <<"group", 0>>

batchVars == <<configured, n_files, uploaded, batch_pc, batch_log>>

BatchInit ==
    /\ configured \in BOOLEAN
    /\ n_files = 0
    /\ uploaded = <<>>
    /\ batch_pc = "idle"
    /\ batch_log = <<>>

BatchOff ==
    /\ configured = FALSE
    /\ n_files = 0
    /\ uploaded = <<>>
    /\ batch_pc = "idle"
    /\ batch_log = <<>>

\* a run starts on n uploaded files
StartRunAt(n, to) ==
    /\ batch_pc \in {"idle", "done", "aborted", "crashed"}
    /\ n_files' = n
    /\ uploaded' = <<>>
    /\ batch_pc' = to
    /\ batch_log' = <<>>
    /\ UNCHANGED configured

StartRun(n) == StartRunAt(n, "loop")

\* the calls one iteration makes, for the history
FileEvents(file, k) ==
    << <<"extract", k>> >>
    \o (IF ReachesAi(file.ext) THEN << <<"ai", k>> >> ELSE <<>>)

\* ------------------------------------------- page_modules/bulk_upload.py
VARIABLES
    bulk_results,           \* st.session_state.bulk_results
    consolidated_results,   \* st.session_state.consolidated_results
    bulk_metrics            \* the counts shown by this script run:
                            \* <<total, successful, failed>>, <<>> if none

bulkVars == <<bulk_results, consolidated_results, bulk_metrics>>

BulkInit ==
    /\ bulk_results = <<>>
    /\ consolidated_results = <<>>
    /\ bulk_metrics = <<>>

\* lines 39-44, 54-58: the button starts _process_bulk_files; results reset
BulkStart ==
    /\ \E n \in 1..MaxFiles : StartRun(n)
    /\ bulk_results' = <<>>
    /\ consolidated_results' = <<>>
    /\ bulk_metrics' = <<>>

\* lines 71-103: the result entry of one file
BulkEntry(file, conf) ==
    IF file.ext.raised
      THEN [file_name |-> file.name, status |-> "failed", error |-> "str(e)",
            client_name |-> "<absent>", products |-> <<>>]
    ELSE IF Strip(file.ext.text) = <<>>
      THEN [file_name |-> file.name, status |-> "failed",
            error |-> "No readable text found in PDF",
            client_name |-> "<absent>", products |-> <<>>]
    ELSE IF ~conf
      THEN [file_name |-> file.name, status |-> "success",
            error |-> "Azure OpenAI credentials not configured",
            client_name |-> "Credentials not configured", products |-> <<>>]
    ELSE IF file.ai.kind = "array"
      THEN [file_name |-> file.name, status |-> "failed", error |-> "str(e)",
            client_name |-> "<absent>", products |-> <<>>]
    ELSE [file_name |-> file.name, status |-> "success",
          error |-> IF file.ai.kind = "error" THEN "str(e)" ELSE "None",
          client_name |-> file.ai.client, products |-> file.ai.products]

\* lines 65-103: one iteration of the file loop
BulkFile ==
    /\ batch_pc = "loop"
    /\ Len(uploaded) < n_files
    /\ \E file \in BulkFiles(Len(uploaded) + 1) :
         /\ uploaded' = Append(uploaded, file)
         /\ bulk_results' = Append(bulk_results, BulkEntry(file, configured))
         /\ batch_log' = batch_log \o FileEvents(file, Len(uploaded) + 1)
    /\ UNCHANGED <<configured, n_files, batch_pc, consolidated_results,
                   bulk_metrics>>

\* lines 110-121: product_db, one entry per product of a successful result
RECURSIVE ProductDb(_)
ProductDb(results) ==
    IF results = <<>> THEN <<>>
    ELSE LET r == Head(results) IN
         (IF r.status = "success"
            THEN [k \in 1..Len(r.products) |->
                    [product_name |-> r.products[k], client_name |-> r.client_name]]
            ELSE <<>>)
         \o ProductDb(Tail(results))

ClientNames(db) == [k \in 1..Len(db) |-> db[k].client_name]

\* lines 126-156: one consolidated row per group of two or more clients
ConsolidatedRows(db, ai_result) ==
    IF ai_result.error THEN <<>>
    ELSE LET kept == SelectSeq(ai_result.groups,
                       LAMBDA g : Cardinality(GroupClients(ClientNames(db), g.product_ids)) >= 2)
         IN  [k \in 1..Len(kept) |->
                [Product |-> kept[k].canonical_name,
                 clients |-> GroupClients(ClientNames(db), kept[k].product_ids)]]

\* what the grouping call of step 2 can give for n products: a failure, no
\* group, or one group over the first two ids or over the first id alone
BulkGroupResponses(n) ==
    {[kind |-> k, groups |-> <<>>] : k \in {"raise", "invalid"}}
    \cup {[kind |-> "object", groups |-> gs] :
            gs \in {<<>>,
                    << [product_ids |-> <<0, 1>>, canonical_name |-> "n1"] >>,
                    << [product_ids |-> <<0>>, canonical_name |-> "n2"] >>}}

\* lines 167-169 of _display_bulk_results
SummaryStatistics(results) ==
    LET total_files == Len(results)
        successful_files ==
            Cardinality({k \in 1..Len(results) : results[k].status = "success"})
    IN  <<total_files, successful_files, total_files - successful_files>>

\* step 2 before the loop is over
FileLoopStarted == Len(uploaded) >= 1

\* line 65: the loop went over every uploaded file
FileLoopOver == Len(uploaded) = n_files

\* lines 105-159: step 2, after the loop; then lines 47-48 of the page,
\* which show the results of the finished run
BulkGroup ==
    /\ batch_pc = "loop"
    /\ FileLoopOver
    /\ LET db == ProductDb(bulk_results) IN
         IF db = <<>>
           THEN UNCHANGED <<consolidated_results, batch_log>>
           ELSE \E resp \in BulkGroupResponses(Len(db)) :
                  LET r == IF configured THEN resp
                           ELSE [kind |-> "no_client", groups |-> <<>>]
                  IN  /\ consolidated_results' =
                           ConsolidatedRows(db, group_similar_products(ClientNames(db), r))
                      /\ batch_log' = Append(batch_log, <<"group", 0>>)
    /\ bulk_metrics' = IF bulk_results # <<>>
                         THEN SummaryStatistics(bulk_results) ELSE <<>>
    /\ batch_pc' = "done"
    /\ UNCHANGED <<configured, n_files, uploaded, bulk_results>>

BulkNext == BulkStart \/ BulkFile \/ BulkGroup

\* outcomes of the task function of the other pages: its fallback dict
\* ("error"), a JSON value that is not an object ("array"), or an object
SimpleAiOutcomes ==
    {[kind |-> k, client |-> "<absent>", products |-> <<>>] :
        k \in {"error", "array", "ok"}}

SimpleFiles(names) ==
    {[name |-> n, ext |-> e, ai |-> a] :
        n \in names, e \in {x \in ExtractResults : ReachesAi(x)},
        a \in SimpleAiOutcomes}
    \cup {[name |-> n, ext |-> e, ai |-> NoAi] :
        n \in names, e \in {x \in ExtractResults : ~ReachesAi(x)}}

\* ----------------------------------------- page_modules/invoice_upload.py
\* extract_client_and_products_from_invoices returns a dict whatever the
\* model answers (TaskFunction, UsesDict): its fallback or a normalized object
InvoiceFiles(names) ==
    {f \in SimpleFiles(names) : f.ai.kind # "array"}

VARIABLES
    invoice_results         \* st.session_state.invoice_results

invoiceVars == <<invoice_results>>

InvoiceInit == invoice_results = <<>>

\* lines 30-31, 39: the button starts _process_invoice_files; results reset
InvoiceStart ==
    /\ \E n \in 1..MaxFiles : StartRun(n)
    /\ invoice_results' = <<>>

\* lines 49-102: the result entry of one file (it has no error field)
InvoiceEntry(file, conf) ==
    IF file.ext.raised \/ Strip(file.ext.text) = <<>>
      THEN [file_name |-> file.name, status |-> "failed",
            invoice_number |-> "Not detected", error |-> "<absent>"]
      ELSE [file_name |-> file.name, status |-> "success",
            invoice_number |-> IF conf /\ file.ai.kind = "ok" THEN "v"
                               ELSE "Not specified",
            error |-> "<absent>"]

\* lines 44-102: one iteration of the file loop
InvoiceFile ==
    /\ batch_pc = "loop"
    /\ Len(uploaded) < n_files
    /\ \E file \in InvoiceFiles({FileNameAt(Len(uploaded) + 1)}) :
         /\ uploaded' = Append(uploaded, file)
         /\ invoice_results' = Append(invoice_results, InvoiceEntry(file, configured))
         /\ batch_log' = batch_log \o FileEvents(file, Len(uploaded) + 1)
    /\ UNCHANGED <<configured, n_files, batch_pc>>

\* lines 104-105: the loop is over
InvoiceFinish ==
    /\ batch_pc = "loop"
    /\ Len(uploaded) = n_files
    /\ batch_pc' = "done"
    /\ UNCHANGED <<configured, n_files, uploaded, batch_log, invoice_results>>

InvoiceNext == InvoiceStart \/ InvoiceFile \/ InvoiceFinish

\* ---------------------------- page_modules/factory_test_comparison.py
VARIABLES
    file_texts,             \* the dict of the run: <<name, text>> in key order
    comparison_result       \* st.session_state.comparison_result

factoryVars == <<file_texts, comparison_result>>

NoComparison == [present |-> FALSE, files |-> {}]

FactoryInit == file_texts = <<>> /\ comparison_result = NoComparison

\* lines 59-60, 68-73: the button starts _process_ai_comparison
FactoryStart ==
    /\ \E n \in 0..MaxFiles : StartRun(n)
    /\ file_texts' = <<>>
    /\ UNCHANGED comparison_result

\* file_texts[name] = text
DictSet(d, name, text) ==
    IF \E k \in 1..Len(d) : d[k][1] = name
      THEN [k \in 1..Len(d) |-> IF d[k][1] = name THEN <<name, text>> ELSE d[k]]
      ELSE Append(d, <<name, text>>)

\* lines 75-82: one iteration; a file whose extraction raises is skipped
FactoryFile ==
    /\ batch_pc = "loop"
    /\ Len(uploaded) < n_files
    /\ \E file \in {[name |-> nm, ext |-> e, ai |-> NoAi] :
                      nm \in {FileNameAt(j) : j \in 1..(Len(uploaded) + 1)},
                      e \in ExtractResults} :
         /\ uploaded' = Append(uploaded, file)
         /\ file_texts' = IF file.ext.raised THEN file_texts
                          ELSE DictSet(file_texts, file.name, file.ext.text)
         /\ batch_log' = Append(batch_log, <<"extract", Len(uploaded) + 1>>)
    /\ UNCHANGED <<configured, n_files, batch_pc, comparison_result>>

\* lines 84-103: the one comparison call over all texts.  A returned non-dict
\* value makes comparison_result.get raise out of the handler.
FactoryCompare ==
    /\ batch_pc = "loop"
    /\ Len(uploaded) = n_files
    /\ IF Len(file_texts) < 2
         THEN /\ batch_pc' = "aborted"
              /\ UNCHANGED <<comparison_result, batch_log>>
         ELSE /\ batch_log' = Append(batch_log, <<"ai", 0>>)
              /\ \E a \in SimpleAiOutcomes :
                   IF ~configured \/ a.kind = "error"
                     THEN batch_pc' = "aborted" /\ UNCHANGED comparison_result
                   ELSE IF a.kind = "array"
                     THEN batch_pc' = "crashed" /\ UNCHANGED comparison_result
                   ELSE /\ batch_pc' = "done"
                        /\ comparison_result' =
                             [present |-> TRUE,
                              files |-> {file_texts[k][1] : k \in 1..Len(file_texts)}]
    /\ UNCHANGED <<configured, n_files, uploaded, file_texts>>

FactoryNext == FactoryStart \/ FactoryFile \/ FactoryCompare

\* ----------------------------------------- page_modules/tender_analysis.py
TenderNames == {"t1", "t2"}
TenderSizes == {10}
TenderContents == {"c1", "c2"}

\* outcomes of analyze_tender_with_fields / analyze_tender_document: a dict
\* with an error key, or a normalized object
TenderAiOutcomes ==
    {[kind |-> k, client |-> "<absent>", products |-> <<>>] : k \in {"error", "ok"}}

\* a tender file: its name and size (the cache key), the document it holds,
\* and what extraction (the document's text, or an exception) and analysis
\* give for it
TenderFiles ==
    UNION {
      {[name |-> n, size |-> z, content |-> c,
        ext |-> [raised |-> FALSE, text |-> <<c>>], ai |-> a] :
          n \in TenderNames, z \in TenderSizes, a \in TenderAiOutcomes}
      \cup {[name |-> n, size |-> z, content |-> c,
             ext |-> [raised |-> TRUE, text |-> <<>>], ai |-> NoAi] :
          n \in TenderNames, z \in TenderSizes}
      : c \in TenderContents }

VARIABLES
    tender_results,         \* st.session_state["tender_results"]: "none",
                            \* "this" (the run_results of the last started
                            \* run) or "earlier" (those of a run before it)
    run_results,            \* the local `results` list of the running run
    pdf_cache,              \* st.session_state["pdf_cache_<name>_<size>"]
    tender_template_hash,   \* the template whose structure is cached
    desired_fields          \* "none" | "no_fields" | "fields"

tenderVars == <<tender_results, run_results, pdf_cache, tender_template_hash,
                desired_fields>>

EmptyCache == [k \in {} |-> <<>>]

TenderInit ==
    /\ tender_results = "none"
    /\ run_results = <<>>
    /\ pdf_cache = EmptyCache
    /\ tender_template_hash = "none"
    /\ desired_fields = "none"

\* lines 62-93: the button; no file, no template or an unreadable template
\* end the run with a warning
TenderStart ==
    /\ \E n \in 0..MaxFiles,
          tmpl \in {"missing", "unreadable", "no_fields", "fields"} :
         IF n = 0 \/ tmpl \in {"missing", "unreadable"}
           THEN /\ StartRunAt(n, "aborted")
                /\ UNCHANGED <<tender_template_hash, desired_fields>>
           ELSE /\ StartRun(n)
                /\ tender_template_hash' = tmpl
                /\ desired_fields' = tmpl
    /\ run_results' = <<>>
    /\ tender_results' = IF tender_results = "none" THEN "none" ELSE "earlier"
    /\ UNCHANGED pdf_cache

CacheKey(file) == <<file.name, file.size>>

CachePut(cache, key, text) ==
    [k \in DOMAIN cache \cup {key} |-> IF k = key THEN text ELSE cache[k]]

\* lines 95-118: one iteration; nothing catches an exception here
TenderFile ==
    /\ batch_pc = "loop"
    /\ Len(uploaded) < n_files
    /\ \E file \in TenderFiles :
         LET k == Len(uploaded) + 1
             cached == CacheKey(file) \in DOMAIN pdf_cache
             text == IF cached THEN pdf_cache[CacheKey(file)] ELSE file.ext.text
             fn == IF desired_fields = "fields" THEN "analyze_tender_with_fields"
                   ELSE "analyze_tender_document"
         IN  /\ uploaded' = Append(uploaded, file)
             /\ IF ~cached /\ file.ext.raised
                  THEN /\ batch_pc' = "crashed"
                       /\ batch_log' = Append(batch_log, <<"extract", k>>)
                       /\ UNCHANGED <<pdf_cache, run_results>>
                  ELSE /\ pdf_cache' = CachePut(pdf_cache, CacheKey(file), text)
                       /\ run_results' = Append(run_results,
                            [file_name |-> file.name,
                             success |-> (configured /\ file.ai.kind = "ok"),
                             text |-> text, task |-> fn])
                       /\ batch_log' = batch_log
                            \o (IF cached THEN <<>> ELSE << <<"extract", k>> >>)
                            \o << <<"ai", k>> >>
                       /\ UNCHANGED batch_pc
    /\ UNCHANGED <<configured, n_files, tender_results, tender_template_hash,
                   desired_fields>>

\* lines 120-121: the results are stored
TenderFinish ==
    /\ batch_pc = "loop"
    /\ Len(uploaded) = n_files
    /\ tender_results' = "this"
    /\ batch_pc' = "done"
    /\ UNCHANGED <<configured, n_files, uploaded, batch_log, run_results,
                   pdf_cache, tender_template_hash, desired_fields>>

TenderNext == TenderStart \/ TenderFile \/ TenderFinish

\* --------------------------------------- page_modules/detailed_analysis.py
VARIABLES
    analysis_results        \* the local list of _process_detailed_analysis

detailedVars == <<analysis_results>>

DetailedInit == analysis_results = <<>>

\* lines 38-48: every script run with uploaded files processes them
DetailedStart ==
    /\ \E n \in 1..MaxFiles : StartRun(n)
    /\ analysis_results' = <<>>

\* lines 52-64 and _analyze_single_file (lines 70-133)
DetailedEntry(file, save_raises) ==
    IF file.ext.raised
      THEN [file_name |-> file.name, success |-> FALSE, error |-> "str(e)"]
    ELSE IF Strip(file.ext.text) = <<>>
      THEN [file_name |-> file.name, success |-> FALSE,
            error |-> "No readable text found in this file."]
    ELSE IF save_raises
      THEN [file_name |-> file.name, success |-> FALSE, error |-> "str(e)"]
    ELSE [file_name |-> file.name, success |-> TRUE, error |-> "None"]

\* lines 51-64: one iteration of the file loop
DetailedFile ==
    /\ batch_pc = "loop"
    /\ Len(uploaded) < n_files
    /\ \E file \in SimpleFiles({FileNameAt(Len(uploaded) + 1)}),
          save_raises \in BOOLEAN :
         /\ uploaded' = Append(uploaded, file)
         /\ analysis_results' =
              Append(analysis_results, DetailedEntry(file, save_raises))
         /\ batch_log' = batch_log \o FileEvents(file, Len(uploaded) + 1)
    /\ UNCHANGED <<configured, n_files, batch_pc>>

\* line 67: the results are displayed
DetailedFinish ==
    /\ batch_pc = "loop"
    /\ Len(uploaded) = n_files
    /\ batch_pc' = "done"
    /\ UNCHANGED <<configured, n_files, uploaded, batch_log, analysis_results>>

DetailedNext == DetailedStart \/ DetailedFile \/ DetailedFinish

\* --------------------------------------------- the comparison functions
\* compare_specifications_with_ai (ai_analyzer.py) and _ai_smart_compare
\* (factory_test_comparison.py) ask the LLM for the comparison rows and return
\* what it answers.  A number-or-null field is <<>> (null) or <<n>>.
MaxRows == 1

Null == <<>>

Statuses == {"OK", "OUT", "MISSING", "NO_SPEC"}

\* the rows an answer can hold
CompareRows ==
    [spec_min : {Null, <<10>>}, spec_max : {Null, <<12>>},
     spec_nominal : {Null, <<11>>}, spec_tolerance_abs : {Null, <<1>>},
     measured_value : {Null, <<11>>, <<13>>},
     status : Statuses, deviation : {"", "d"}]

CompareFunctions == {"compare_specifications_with_ai", "_ai_smart_compare"}

VARIABLES
    cmp_fn,         \* the comparison function called
    cmp_resp,       \* what the LLM call gives
    cmp_result      \* the returned dict

compareVars == <<cmp_fn, cmp_resp, cmp_result>>

CompareNotCalled == [called |-> FALSE, error |-> FALSE, comparisons |-> <<>>]

\* the status the numbers of a row call for
RowWithin(r) ==
    LET m == r.measured_value[1]
        lo == IF r.spec_min # Null THEN r.spec_min[1]
              ELSE r.spec_nominal[1] - r.spec_tolerance_abs[1]
        hi == IF r.spec_max # Null THEN r.spec_max[1]
              ELSE r.spec_nominal[1] + r.spec_tolerance_abs[1]
        has_lo == r.spec_min # Null
                  \/ (r.spec_nominal # Null /\ r.spec_tolerance_abs # Null)
        has_hi == r.spec_max # Null
                  \/ (r.spec_nominal # Null /\ r.spec_tolerance_abs # Null)
    IN  (has_lo => lo <= m) /\ (has_hi => m <= hi)

HasSpec(r) ==
    r.spec_min # Null \/ r.spec_max # Null
    \/ (r.spec_nominal # Null /\ r.spec_tolerance_abs # Null)

StatusFromNumbers(r) ==
    IF r.measured_value = Null THEN (IF HasSpec(r) THEN "MISSING" ELSE r.status)
    ELSE IF ~HasSpec(r) THEN "NO_SPEC"
    ELSE IF RowWithin(r) THEN "OK" ELSE "OUT"

\* data = json.loads(response_text); (setdefault summary / comparisons;)
\* return data: the rows are returned as the model wrote them
ReturnedRows(rows) == rows

\* ai_analyzer.py lines 595-654, factory_test_comparison.py lines 111-176
CompareFunction(fn, resp) ==
    IF resp.kind = "object"
      THEN [called |-> TRUE, error |-> FALSE, comparisons |-> ReturnedRows(resp.rows)]
      ELSE [called |-> TRUE, error |-> TRUE, comparisons |-> <<>>]

CompareInit ==
    /\ cmp_fn \in CompareFunctions
    /\ cmp_resp \in {[kind |-> k, rows |-> <<>>] : k \in {"no_client", "raise", "invalid"}}
                    \cup {[kind |-> "object", rows |-> rs] :
                            rs \in SeqsUpTo(CompareRows, MaxRows)}
    /\ cmp_result = CompareNotCalled

CompareOff ==
    /\ cmp_fn = "_ai_smart_compare"
    /\ cmp_resp = [kind |-> "no_client", rows |-> <<>>]
    /\ cmp_result = CompareNotCalled

CallCompare ==
    /\ ~cmp_result.called
    /\ cmp_result' = CompareFunction(cmp_fn, cmp_resp)
    /\ UNCHANGED <<cmp_fn, cmp_resp>>

CompareNext == CallCompare

\* ------------------------------------------------- utils/file_utils.py
\* generate_detailed_csv_download_data and the re-parse of its bytes.  A text
\* is a sequence of characters; a value of a result is None, a number or a
\* string, with the characters str() gives for it.
MaxCsvDocs == 2
MaxCsvProducts == 1

Bom == "BOM"
Quote == "\""

NoneValue == [kind |-> "none", chars |-> <<>>]
Absent == [kind |-> "absent", chars |-> <<>>]
StrValue(chars) == [kind |-> "str", chars |-> chars]

\* the products a result can hold: the product name is missing, null, plain,
\* or a string with the delimiter, a quote and a line break; the quantity is missing
\* or a number
CsvProducts ==
    {[product_name |-> n, quantity |-> Absent] :
        n \in {Absent, NoneValue, StrValue(<<"a">>),
               StrValue(<<";", Quote, "\n">>)}}
    \cup {[product_name |-> StrValue(<<"a">>),
           quantity |-> [kind |-> "num", chars |-> <<"5">>]]}

\* the entries of bulk_results (bulk_upload.py lines 76-102)
CsvDocs ==
    {[status |-> "success", products |-> ps, error |-> NoneValue] :
        ps \in SeqsUpTo(CsvProducts, MaxCsvProducts)}
    \cup {[status |-> "failed", products |-> <<>>, error |-> StrValue(<<"e">>)]}

VARIABLES
    csv_results,    \* the results handed to the export
    csv_bytes,      \* the returned bytes, as characters
    csv_rows,       \* the rows the re-parse gives
    csv_pc          \* "start" | "exported" | "parsed"

csvVars == <<csv_results, csv_bytes, csv_rows, csv_pc>>

\* dict.get(key, default) on a product
GetValue(v, dflt) == IF v.kind = "absent" THEN StrValue(dflt) ELSE v

\* lines 105-146: the rows written for one result, as values
DocRows(doc) ==
    LET file_name == StrValue(<<"f">>)
        status == StrValue(<<doc.status>>)
        empty == StrValue(<<>>)
    IN  IF doc.status = "success"
          THEN IF doc.products # <<>>
                 THEN [k \in 1..Len(doc.products) |->
                         <<file_name, status, StrValue(<<"c">>), StrValue(<<"t">>),
                           GetValue(doc.products[k].product_name, <<"Unknown">>),
                           GetValue(doc.products[k].quantity, <<"Not specified">>),
                           empty, StrValue(<<"Not specified">>), doc.error>>]
                 ELSE << <<file_name, status, StrValue(<<"c">>), StrValue(<<"t">>),
                           StrValue(<<"No products detected">>), empty, empty,
                           empty, doc.error>> >>
          ELSE << <<file_name, status, empty, empty, empty, empty, empty,
                    empty, doc.error>> >>

RECURSIVE AllRows(_)
AllRows(results) ==
    IF results = <<>> THEN <<>>
    ELSE DocRows(Head(results)) \o AllRows(Tail(results))

CsvHeaders ==
    <<StrValue(<<"File Name">>), StrValue(<<"Status">>),
      StrValue(<<"Client Name">>), StrValue(<<"Contract Type">>),
      StrValue(<<"Product/Service Name">>), StrValue(<<"Quantity">>),
      StrValue(<<"Unit">>), StrValue(<<"Description">>), StrValue(<<"Error">>)>>

\* csv.writer: None is written as the empty string, anything else as str(v)
FieldText(v) == IF v.kind = "none" THEN <<>> ELSE v.chars

\* QUOTE_MINIMAL: a field is quoted when it holds the delimiter, the quote
\* character or a character of the line terminator
NeedsQuoteNever(t) == FALSE
NeedsQuote(t) == \E i \in 1..Len(t) : t[i] \in {";", Quote, "\r", "\n"}

RECURSIVE DoubleQuotes(_)
DoubleQuotes(t) ==
    IF t = <<>> THEN <<>>
    ELSE (IF Head(t) = Quote THEN <<Quote, Quote>> ELSE <<Head(t)>>)
         \o DoubleQuotes(Tail(t))

WriteField(t) ==
    IF NeedsQuote(t) THEN <<Quote>> \o DoubleQuotes(t) \o <<Quote>> ELSE t

RECURSIVE JoinFields(_)
JoinFields(fields) ==
    IF Len(fields) = 1 THEN WriteField(FieldText(fields[1]))
    ELSE WriteField(FieldText(Head(fields))) \o <<";">> \o JoinFields(Tail(fields))

\* writer.writerow(row): the fields and the line terminator "\r\n"
WriteRow(fields) == JoinFields(fields) \o <<"\r", "\n">>

RECURSIVE WriteRows(_)
WriteRows(rows) ==
    IF rows = <<>> THEN <<>> ELSE WriteRow(Head(rows)) \o WriteRows(Tail(rows))

\* lines 91-153
generate_detailed_csv_download_data(results) ==
    IF results = <<>> THEN <<>>
    ELSE <<Bom>> \o WriteRow(CsvHeaders) \o WriteRows(AllRows(results))

\* bytes.decode("utf-8-sig")
DecodeSig(bytes) ==
    IF bytes # <<>> /\ Head(bytes) = Bom THEN Tail(bytes) ELSE bytes

\* csv.reader(io.StringIO(text), delimiter=';'): one record from position i,
\* with the position after it; a line without any character gives no field
RECURSIVE ParseRecord(_, _, _, _, _)
ParseRecord(t, i, inq, fld, row) ==
    IF i > Len(t)
      THEN [row |-> Append(row, fld), next |-> i]
    ELSE IF inq
      THEN IF t[i] = Quote
             THEN IF i < Len(t) /\ t[i + 1] = Quote
                    THEN ParseRecord(t, i + 2, TRUE, Append(fld, Quote), row)
                    ELSE ParseRecord(t, i + 1, FALSE, fld, row)
             ELSE ParseRecord(t, i + 1, TRUE, Append(fld, t[i]), row)
    ELSE IF t[i] = Quote /\ fld = <<>>
      THEN ParseRecord(t, i + 1, TRUE, fld, row)
    ELSE IF t[i] = ";"
      THEN ParseRecord(t, i + 1, FALSE, <<>>, Append(row, fld))
    ELSE IF t[i] \in {"\r", "\n"}
      THEN [row |-> IF row = <<>> /\ fld = <<>> THEN <<>> ELSE Append(row, fld),
            next |-> IF t[i] = "\r" /\ i < Len(t) /\ t[i + 1] = "\n"
                       THEN i + 2 ELSE i + 1]
    ELSE ParseRecord(t, i + 1, FALSE, Append(fld, t[i]), row)

RECURSIVE ParseRecords(_, _, _)
ParseRecords(t, i, rows) ==
    IF i > Len(t) THEN rows
    ELSE LET r == ParseRecord(t, i, FALSE, <<>>, <<>>)
         IN  ParseRecords(t, r.next, Append(rows, r.row))

ParseCsv(bytes) == ParseRecords(DecodeSig(bytes), 1, <<>>)

CsvInit ==
    /\ csv_results \in SeqsUpTo(CsvDocs, MaxCsvDocs)
    /\ csv_bytes = <<>>
    /\ csv_rows = <<>>
    /\ csv_pc = "start"

CsvOff ==
    /\ csv_results = <<>>
    /\ csv_bytes = <<>>
    /\ csv_rows = <<>>
    /\ csv_pc = "parsed"

\* the export
ExportCsv ==
    /\ csv_pc = "start"
    /\ csv_bytes' = generate_detailed_csv_download_data(csv_results)
    /\ csv_pc' = "exported"
    /\ UNCHANGED <<csv_results, csv_rows>>

\* the re-parse of the exported bytes
ReparseCsv ==
    /\ csv_pc = "exported"
    /\ csv_rows' = ParseCsv(csv_bytes)
    /\ csv_pc' = "parsed"
    /\ UNCHANGED <<csv_results, csv_bytes>>

CsvNext == ExportCsv \/ ReparseCsv

\* ---------------- extract_specifications_from_text: parameter normalization
\* ai_analyzer.py lines 531-559.  A raw value of a numeric field is named by
\* what it is: the key is absent, null, a JSON number (integer, or an integer
\* too large for a float, or a real), a string that float() parses, any other
\* string, a boolean or a list.
MaxParams == 1

NumericFields ==
    {"spec_min", "spec_max", "spec_nominal", "spec_tolerance_abs",
     "spec_tolerance_pct", "measured_value"}

RawKinds ==
    {"absent", "null", "int", "huge_int", "float", "numeric_string",
     "other_string", "bool", "list"}

\* the parameters of an answer: one field holds any kind of value, a second
\* one may hold a string that is no number, the others are null
RawParams ==
    {[f \in NumericFields |->
        IF f = g THEN k ELSE IF f = h THEN k2 ELSE "null"] :
        g \in NumericFields, h \in NumericFields, k \in RawKinds,
        k2 \in {"null", "other_string"}}

VARIABLES
    raw_params,     \* data["parameters"] as the model wrote it
    norm_result     \* the returned dict

coerceVars == <<raw_params, norm_result>>

NotNormalized == [called |-> FALSE, error |-> FALSE, parameters |-> <<>>]

\* float(val): the value, or the exception it raises
FloatOf(kind) ==
    CASE kind \in {"int", "float", "numeric_string", "bool"} -> "number"
      [] kind = "other_string" -> "ValueError"
      [] kind = "list" -> "TypeError"
      [] kind = "huge_int" -> "OverflowError"

\* lines 549-555 without the try: the raw value is left in place
CoerceUnguarded(kind) ==
    IF kind \in {"absent", "null"} THEN "null"
    ELSE IF FloatOf(kind) = "number" THEN "number" ELSE kind

\* lines 536-541 and 549-555: p.get(field), then float() unless None, with
\* ValueError and TypeError turned into None
Coerce(kind) ==
    IF kind \in {"absent", "null"} THEN "null"
    ELSE IF FloatOf(kind) \in {"ValueError", "TypeError"} THEN "null"
    ELSE FloatOf(kind)

NormalizeParam(p) == [f \in NumericFields |-> Coerce(p[f])]

\* an exception other than ValueError / TypeError leaves the loop and is
\* caught at line 561: the fallback dict with no parameter
NormalizeRaises(params) ==
    \E k \in 1..Len(params), f \in NumericFields :
        /\ params[k][f] \notin {"absent", "null"}
        /\ FloatOf(params[k][f]) = "OverflowError"

\* lines 531-568
NormalizeParams(params) ==
    IF NormalizeRaises(params)
      THEN [called |-> TRUE, error |-> TRUE, parameters |-> <<>>]
      ELSE [called |-> TRUE, error |-> FALSE,
            parameters |-> [k \in 1..Len(params) |-> NormalizeParam(params[k])]]

CoerceInit ==
    /\ raw_params \in SeqsUpTo(RawParams, MaxParams)
    /\ norm_result = NotNormalized

CoerceOff ==
    /\ raw_params = <<>>
    /\ norm_result = NotNormalized

CallNormalize ==
    /\ ~norm_result.called
    /\ norm_result' = NormalizeParams(raw_params)
    /\ UNCHANGED raw_params

CoerceNext == CallNormalize

\* ------- extract_client_and_products_from_invoices: product normalization
\* ai_analyzer.py lines 286-302.  An entry of parsed["products"] is null, a
\* JSON object (a function from its keys to values) or a value that is neither
\* (a string).
MaxItems == 1
MaxItemKeys == 2

ItemKeys ==
    {"product_name", "description", "quantity", "unit", "unit_price",
     "line_total", "currency", "tax_rate_percent", "sku_or_part_number"}

\* the keys the model can write in an entry: the nine, and one of its own
SuppliedKeys == ItemKeys \cup {"discount"}

RawItems ==
    {[kind |-> "null", d |-> EmptyObject], [kind |-> "string", d |-> EmptyObject]}
    \cup {[kind |-> "object", d |-> [k \in ks |-> "v"]] :
            ks \in SubsetsUpTo(SuppliedKeys, MaxItemKeys) \cup {ItemKeys}}

VARIABLES
    raw_items,          \* parsed["products"] as the model wrote it
    parsed_currency,    \* parsed["currency"] after the top-level defaults
    item_result         \* the returned products

itemVars == <<raw_items, parsed_currency, item_result>>

ItemsNotCalled == [called |-> FALSE, error |-> FALSE, products |-> <<>>]

\* lines 288-298; the currency default is parsed.get("currency", ...) (the
\* tax rate default is read from parsed likewise and taken as its default)
ItemDefaults(currency) ==
    [k \in ItemKeys |-> IF k = "currency" THEN currency ELSE "Not specified"]

\* the entry as the model wrote it, without the defaults
ItemAsSupplied(item, currency) == item.d

\* line 299: {**item_defaults, **(item or {})}
NormalizeItem(item, currency) ==
    Merge(ItemDefaults(currency), IF item.kind = "null" THEN EmptyObject ELSE item.d)

\* ** on a value that is no mapping raises TypeError, caught at line 303
ItemsRaise(items) == \E k \in 1..Len(items) : items[k].kind = "string"

\* lines 286-302, and the fallback of lines 303-326
NormalizeProducts(items, currency) ==
    IF ItemsRaise(items)
      THEN [called |-> TRUE, error |-> TRUE, products |-> <<>>]
      ELSE [called |-> TRUE, error |-> FALSE,
            products |-> [k \in 1..Len(items) |-> NormalizeItem(items[k], currency)]]

ItemInit ==
    /\ raw_items \in SeqsUpTo(RawItems, MaxItems)
    /\ parsed_currency \in {"EUR", "null", "Not specified"}
    /\ item_result = ItemsNotCalled

ItemOff ==
    /\ raw_items = <<>>
    /\ parsed_currency = "Not specified"
    /\ item_result = ItemsNotCalled

CallNormalizeProducts ==
    /\ ~item_result.called
    /\ item_result' = NormalizeProducts(raw_items, parsed_currency)
    /\ UNCHANGED <<raw_items, parsed_currency>>

ItemNext == CallNormalizeProducts

\* ------------------------ utils/ai_analyzer.py: cleaning the model's reply
\* The reply is a sequence of tokens: Fence is the fence marker, "json" the
\* four letters, "{}" a piece of JSON text, " " white space.

\* bound on the length of a reply, in tokens
MaxText == 4

\* the fence marker, three backticks
Fence == "fence"
ReplyTokens == {Fence, "json", "{}", " "}

RECURSIVE TextsUpTo(_)
TextsUpTo(n) ==
    IF n = 0 THEN {<<>>}
    ELSE LET P == TextsUpTo(n - 1)
         IN  P \cup {Append(p, c) : p \in {q \in P : Len(q) = n - 1},
                                    c \in ReplyTokens}

\* the two forms of the clean-up (lines 75-78 and lines 518-521)
CleanFunctions == {"analyze_contract", "extract_specifications_from_text"}

VARIABLES
    fence_fn,       \* the function that received the reply, "" before the call
    fence_reply,    \* message.content
    fence_parsed    \* the text handed to json.loads

fenceVars == <<fence_fn, fence_reply, fence_parsed>>

\* the positions where sep occurs in t
Occurrences(t, sep) ==
    {i \in 1..(Len(t) - Len(sep) + 1) : SubSeq(t, i, i + Len(sep) - 1) = sep}

\* sep in t
Contains(t, sep) == Occurrences(t, sep) # {}

FirstOccurrence(t, sep) ==
    CHOOSE i \in Occurrences(t, sep) : \A j \in Occurrences(t, sep) : i <= j

\* t.split(sep)[0]
SplitHead(t, sep) ==
    IF Contains(t, sep) THEN SubSeq(t, 1, FirstOccurrence(t, sep) - 1) ELSE t

\* t.split(sep)[1], for a t that contains sep
SplitSecond(t, sep) ==
    SplitHead(SubSeq(t, FirstOccurrence(t, sep) + Len(sep), Len(t)), sep)

\* lines 75-78; lines 518-521, where the second piece of the split on the
\* fence is split on the fence again and its head taken
CleanReply(fn, response_text) ==
    IF Contains(response_text, <<Fence, "json">>)
    THEN Strip(SplitHead(SplitSecond(response_text, <<Fence, "json">>),
                         <<Fence>>))
    ELSE IF Contains(response_text, <<Fence>>)
    THEN IF fn = "extract_specifications_from_text"
         THEN Strip(SplitHead(SplitSecond(response_text, <<Fence>>), <<Fence>>))
         ELSE Strip(SplitSecond(response_text, <<Fence>>))
    ELSE response_text

FenceInit ==
    /\ fence_fn = ""
    /\ fence_reply \in TextsUpTo(MaxText)
    /\ fence_parsed = <<>>

FenceOff ==
    /\ fence_fn = ""
    /\ fence_reply = <<>>
    /\ fence_parsed = <<>>

\* lines 72-80: strip the reply, clean it, hand it to json.loads
CallClean ==
    /\ fence_fn = ""
    /\ \E fn \in CleanFunctions :
        /\ fence_fn' = fn
        /\ fence_parsed' = CleanReply(fn, Strip(fence_reply))
    /\ UNCHANGED fence_reply

FenceNext == CallClean

\* ------------------------- utils/web_research.py: analyze_market_situation
\* bound on the number of results one search returns
MaxSources == 1

\* line 134
max_retries == 2

MarketFields ==
    {"Vermutliche Wettbewerber", "Letzter Tender", "Split möglich",
     "Chancen in %"}

\* a result dict: the four market fields and the sources list
MarketResult(w, t, s, c, sources) ==
    [k \in MarketFields \cup {"sources"} |->
        CASE k = "Vermutliche Wettbewerber" -> w
          [] k = "Letzter Tender" -> t
          [] k = "Split möglich" -> s
          [] k = "Chancen in %" -> c
          [] OTHER -> sources]

\* lines 13-53, search_market_info: one error entry, or up to MaxSources
\* results
SearchOutcomes ==
    {<<"error">>} \cup {[k \in 1..n |-> "result"] : n \in 0..MaxSources}

\* lines 78-83: the queries built from the arguments
Queries(customer, project_title) ==
    (IF customer THEN <<"competitors", "last tender">> ELSE <<>>)
    \o (IF project_title THEN <<"market">> ELSE <<>>)

\* lines 86-89: all_results, for the outcome of each query
RECURSIVE Flatten(_)
Flatten(ss) == IF ss = <<>> THEN <<>> ELSE Head(ss) \o Flatten(Tail(ss))

\* lines 91-94: sources, one per result that is no error entry
SourcesOf(all_results) ==
    <<Cardinality({k \in 1..Len(all_results) : all_results[k] # "error"})>>

\* what the model replies: text json.loads rejects, a JSON array, or an
\* object holding some of the four fields
MarketReplies ==
    {[kind |-> "invalid", keys |-> {}], [kind |-> "array", keys |-> {}]}
    \cup {[kind |-> "object", keys |-> ks] : ks \in SUBSET MarketFields}

VARIABLES
    mkt_pc,         \* "idle" | "synth" | "parse" | "done"
    mkt_args,       \* which of customer and project_title are not empty
    mkt_sources,    \* sources, <<n>> for n entries
    mkt_configured, \* azure_config.client is not None
    mkt_attempt,    \* attempt of the retry loop
    mkt_log,        \* history: <<"call", outcome>>, <<"sleep", halves>>
    mkt_result      \* the returned dict, <<>> before the return

marketVars == <<mkt_pc, mkt_args, mkt_sources, mkt_configured, mkt_attempt,
                mkt_log, mkt_result>>

MarketReturn(result) ==
    /\ mkt_result' = result
    /\ mkt_pc' = "done"

\* lines 181-188: the return of the outer except
MarketError(sources) ==
    MarketResult("Fehler bei Analyse", "Fehler: e", "Unklar", "Unklar", sources)

MarketInit ==
    /\ mkt_pc = "idle"
    /\ mkt_args = <<FALSE, FALSE>>
    /\ mkt_sources = <<0>>
    /\ mkt_configured \in BOOLEAN
    /\ mkt_attempt = 0
    /\ mkt_log = <<>>
    /\ mkt_result = <<>>

MarketOff ==
    /\ mkt_pc = "idle"
    /\ mkt_args = <<FALSE, FALSE>>
    /\ mkt_sources = <<0>>
    /\ mkt_configured = FALSE
    /\ mkt_attempt = 0
    /\ mkt_log = <<>>
    /\ mkt_result = <<>>

\* lines 69-105: the guard on the arguments and the web search
MarketSearch ==
    /\ mkt_pc = "idle"
    /\ \E customer, project_title \in BOOLEAN :
         /\ mkt_args' = <<customer, project_title>>
         /\ IF ~customer /\ ~project_title
              THEN /\ MarketReturn(MarketResult("Nicht ermittelt", "Nicht ermittelt",
                                                "Nicht ermittelt", "Nicht ermittelt",
                                                <<0>>))
                   /\ mkt_sources' = <<0>>
              ELSE \E found \in [1..Len(Queries(customer, project_title))
                                   -> SearchOutcomes] :
                     LET all_results == Flatten(found) IN
                     /\ mkt_sources' = SourcesOf(all_results)
                     /\ IF all_results = <<>> \/ all_results[1] = "error"
                          THEN MarketReturn(
                                 MarketResult("Keine Web-Recherche verfügbar",
                                              "Keine Web-Recherche verfügbar",
                                              "Keine Web-Recherche verfügbar",
                                              "Keine Web-Recherche verfügbar",
                                              SourcesOf(all_results)))
                          ELSE mkt_pc' = "synth" /\ mkt_result' = <<>>
    /\ UNCHANGED <<mkt_configured, mkt_attempt, mkt_log>>

\* the retry test with one attempt more
RetryAllowedOnceMore(attempt) == attempt < max_retries

\* line 147: if attempt < max_retries - 1
RetryAllowed(attempt) == attempt < max_retries - 1

\* lines 132-149, 183-199: one attempt of the retry loop
MarketAttempt ==
    /\ mkt_pc = "synth"
    /\ IF ~mkt_configured
         THEN /\ MarketReturn(MarketResult("Nicht ermittelt", "Nicht ermittelt",
                                           "Unklar", "Unklar", mkt_sources))
              /\ UNCHANGED <<mkt_attempt, mkt_log>>
         ELSE \E outcome \in {"ok", "raise"} :
                IF outcome = "ok"
                  THEN /\ mkt_log' = Append(mkt_log, <<"call", "ok">>)
                       /\ mkt_pc' = "parse"
                       /\ UNCHANGED <<mkt_attempt, mkt_result>>
                ELSE IF RetryAllowed(mkt_attempt)
                  THEN /\ mkt_log' = mkt_log \o << <<"call", "raise">>,
                                                   <<"sleep", 2 ^ mkt_attempt>> >>
                       /\ mkt_attempt' = mkt_attempt + 1
                       /\ UNCHANGED <<mkt_pc, mkt_result>>
                ELSE /\ mkt_log' = Append(mkt_log, <<"call", "raise">>)
                     /\ MarketReturn(MarketError(mkt_sources))
                     /\ UNCHANGED mkt_attempt
    /\ UNCHANGED <<mkt_args, mkt_sources, mkt_configured>>

\* lines 151-170: parse the reply and fill in the missing fields
MarketParse ==
    /\ mkt_pc = "parse"
    /\ \E reply \in MarketReplies :
         IF reply.kind # "object"
           THEN MarketReturn(MarketError(mkt_sources))
           ELSE MarketReturn(
                  MarketResult(
                    IF "Vermutliche Wettbewerber" \in reply.keys THEN "v"
                      ELSE "Nicht ermittelt",
                    IF "Letzter Tender" \in reply.keys THEN "v"
                      ELSE "Nicht ermittelt",
                    IF "Split möglich" \in reply.keys THEN "v" ELSE "Unklar",
                    IF "Chancen in %" \in reply.keys THEN "v" ELSE "Unklar",
                    mkt_sources))
    /\ UNCHANGED <<mkt_args, mkt_sources, mkt_configured, mkt_attempt, mkt_log>>

\* the next call of analyze_market_situation
MarketAgain ==
    /\ mkt_pc = "done"
    /\ mkt_pc' = "idle"
    /\ mkt_result' = <<>>
    /\ mkt_attempt' = 0
    /\ mkt_log' = <<>>
    /\ UNCHANGED <<mkt_args, mkt_sources, mkt_configured>>

MarketNext == MarketSearch \/ MarketAttempt \/ MarketParse \/ MarketAgain

\* ------------------------------------- config/settings.py: AzureConfig.client
\* azure_config is one object of the process; every session of the app is a
\* thread that reads azure_config.client.  A handle is the number of the
\* construction that made it, None is 0.

\* bound on the number of sessions (script threads) of the process
MaxSessions == 3

Sessions == 1..MaxSessions

VARIABLES
    credentials,      \* api_key and azure_endpoint are both set
    client_handle,    \* azure_config._client
    constructed,      \* history: successful AzureOpenAI(...) constructions
    attempted,        \* history: AzureOpenAI(...) was called
    getter_pc,        \* per session: "out" | "constructing"
    got,              \* per session: the last value the property returned,
                      \* <<>> before the first return
    overlapped        \* history: two sessions were inside the getter at once

clientVars == <<credentials, client_handle, constructed, attempted, getter_pc,
                got, overlapped>>

ClientInit ==
    /\ credentials \in BOOLEAN
    /\ client_handle = 0
    /\ constructed = 0
    /\ attempted = FALSE
    /\ getter_pc = [s \in Sessions |-> "out"]
    /\ got = [s \in Sessions |-> <<>>]
    /\ overlapped = FALSE

ClientOff ==
    /\ credentials = FALSE
    /\ client_handle = 0
    /\ constructed = 0
    /\ attempted = FALSE
    /\ getter_pc = [s \in Sessions |-> "out"]
    /\ got = [s \in Sessions |-> <<>>]
    /\ overlapped = FALSE

\* line 53: self._client is None and self.api_key and self.azure_endpoint
MustConstruct == client_handle = 0 /\ credentials

\* lines 53, 63: the test, and the return when nothing is to be constructed
ClientGet(s) ==
    /\ getter_pc[s] = "out"
    /\ IF MustConstruct
         THEN /\ getter_pc' = [getter_pc EXCEPT ![s] = "constructing"]
              /\ overlapped' = (overlapped \/ \E o \in Sessions \ {s} :
                                                getter_pc[o] = "constructing")
              /\ UNCHANGED got
         ELSE /\ got' = [got EXCEPT ![s] = <<client_handle>>]
              /\ UNCHANGED <<getter_pc, overlapped>>
    /\ UNCHANGED <<credentials, client_handle, constructed, attempted>>

\* lines 54-63: AzureOpenAI(...) raises (None is returned) or its result is
\* assigned to self._client and returned
ClientConstruct(s) ==
    /\ getter_pc[s] = "constructing"
    /\ attempted' = TRUE
    /\ getter_pc' = [getter_pc EXCEPT ![s] = "out"]
    /\ \/ /\ got' = [got EXCEPT ![s] = <<0>>]
          /\ UNCHANGED <<client_handle, constructed>>
       \/ /\ constructed' = constructed + 1
          /\ client_handle' = constructed + 1
          /\ got' = [got EXCEPT ![s] = <<constructed + 1>>]
    /\ UNCHANGED <<credentials, overlapped>>

ClientNext == \E s \in Sessions : ClientGet(s) \/ ClientConstruct(s)

\* --------------------- utils/pdf_processor.py: the DeepSeek-OCR model handle
\* _deepseek_model is a global of the module; every extraction call that
\* reaches the OCR fallback runs in the thread of its session.  A handle is
\* the number of the construction that made it, None is 0.

\* bound on the number of extraction calls that run in the process at once
MaxCalls == 2

Calls == 1..MaxCalls

VARIABLES
    model_handle,   \* _deepseek_model
    model_loads,    \* history: successful AutoModel.from_pretrained calls
    ocr_pc,         \* per call: "page" | "loading" | "infer" | "returned"
    ocr_page,       \* per call: pages of its document already processed
    ocr_pages,      \* per call: pages of its document
    infer_with,     \* per call: the handles its infer calls used
    loads_overlapped \* history: two calls were loading at once

modelVars == <<model_handle, model_loads, ocr_pc, ocr_page, ocr_pages,
               infer_with, loads_overlapped>>

ModelInit ==
    /\ model_handle = 0
    /\ model_loads = 0
    /\ ocr_pc = [c \in Calls |-> "page"]
    /\ ocr_page = [c \in Calls |-> 0]
    /\ ocr_pages \in [Calls -> 1..MaxPages]
    /\ infer_with = [c \in Calls |-> {}]
    /\ loads_overlapped = FALSE

ModelOff ==
    /\ model_handle = 0
    /\ model_loads = 0
    /\ ocr_pc = [c \in Calls |-> "page"]
    /\ ocr_page = [c \in Calls |-> 0]
    /\ ocr_pages = [c \in Calls |-> 1]
    /\ infer_with = [c \in Calls |-> {}]
    /\ loads_overlapped = FALSE

\* line 111: if _deepseek_model is None
ModelMissing == model_handle = 0

\* lines 99-111: the next page of the document of call c, up to the test of
\* the handle; line 156 when no page is left
OcrNextPage(c) ==
    /\ ocr_pc[c] = "page"
    /\ IF ocr_page[c] = ocr_pages[c]
         THEN /\ ocr_pc' = [ocr_pc EXCEPT ![c] = "returned"]
              /\ UNCHANGED loads_overlapped
         ELSE IF ModelMissing
           THEN /\ ocr_pc' = [ocr_pc EXCEPT ![c] = "loading"]
                /\ loads_overlapped' =
                     (loads_overlapped \/ \E o \in Calls \ {c} : ocr_pc[o] = "loading")
           ELSE /\ ocr_pc' = [ocr_pc EXCEPT ![c] = "infer"]
                /\ UNCHANGED loads_overlapped
    /\ UNCHANGED <<model_handle, model_loads, ocr_page, ocr_pages, infer_with>>

\* lines 112-119: from_pretrained raises (Tesseract takes the page, line 145)
\* or the new model is assigned to the global
OcrLoadModel(c) ==
    /\ ocr_pc[c] = "loading"
    /\ \/ /\ ocr_pc' = [ocr_pc EXCEPT ![c] = "page"]
          /\ ocr_page' = [ocr_page EXCEPT ![c] = @ + 1]
          /\ UNCHANGED <<model_handle, model_loads>>
       \/ /\ model_loads' = model_loads + 1
          /\ model_handle' = model_loads + 1
          /\ ocr_pc' = [ocr_pc EXCEPT ![c] = "infer"]
          /\ UNCHANGED ocr_page
    /\ UNCHANGED <<ocr_pages, infer_with, loads_overlapped>>

\* lines 122-154: _deepseek_model.infer on the page, Tesseract if needed
OcrInfer(c) ==
    /\ ocr_pc[c] = "infer"
    /\ infer_with' = [infer_with EXCEPT ![c] = @ \cup {model_handle}]
    /\ ocr_page' = [ocr_page EXCEPT ![c] = @ + 1]
    /\ ocr_pc' = [ocr_pc EXCEPT ![c] = "page"]
    /\ UNCHANGED <<model_handle, model_loads, ocr_pages, loads_overlapped>>

\* the next extraction call of the same session
OcrCallAgain(c) ==
    /\ ocr_pc[c] = "returned"
    /\ ocr_pc' = [ocr_pc EXCEPT ![c] = "page"]
    /\ ocr_page' = [ocr_page EXCEPT ![c] = 0]
    /\ infer_with' = [infer_with EXCEPT ![c] = {}]
    /\ \E n \in 1..MaxPages : ocr_pages' = [ocr_pages EXCEPT ![c] = n]
    /\ UNCHANGED <<model_handle, model_loads, loads_overlapped>>

ModelNext ==
    \E c \in Calls :
        OcrNextPage(c) \/ OcrLoadModel(c) \/ OcrInfer(c) \/ OcrCallAgain(c)

\* ------------------------------------------------- config/msal_config.py
\* One browser session.  None is <<>>; a state value is <<n>>, the n-th value
\* secrets.token_urlsafe gave in the session; an authorization code is
\* <<"c">>, and the user and the token obtained with it are <<"c">> too.

\* bound on the number of state values issued in a session
MaxStates == 2

None == <<>>
StateValues == {<<n>> : n \in 1..MaxStates}
AuthCodes == {<<"c1">>, <<"c2">>}

VARIABLES
    msal_ready,     \* msal_app is available (client id and secret are set)
    auth_state,     \* st.session_state.auth_state
    auth_user,      \* st.session_state.auth_user
    auth_token,     \* st.session_state.auth_token
    issued_states,  \* history: the values get_authorization_url issued
    last_callback   \* history: what the last handle_callback did

authVars == <<msal_ready, auth_state, auth_user, auth_token, issued_states,
              last_callback>>

NoCallback ==
    [code |-> None, state |-> None, state_issued |-> TRUE,
     exchanged |-> FALSE, changed |-> FALSE]

\* lines 62-69: initialize_session
AuthInit ==
    /\ msal_ready \in BOOLEAN
    /\ auth_state = None
    /\ auth_user = None
    /\ auth_token = None
    /\ issued_states = {}
    /\ last_callback = NoCallback

AuthOff ==
    /\ msal_ready = FALSE
    /\ auth_state = None
    /\ auth_user = None
    /\ auth_token = None
    /\ issued_states = {}
    /\ last_callback = NoCallback

\* lines 81-96: get_authorization_url
GetAuthorizationUrl ==
    /\ msal_ready
    /\ Cardinality(issued_states) < MaxStates
    /\ LET state == <<Cardinality(issued_states) + 1>> IN
         /\ auth_state' = state
         /\ issued_states' = issued_states \cup {state}
    /\ UNCHANGED <<msal_ready, auth_user, auth_token, last_callback>>

\* line 156: the state of the callback is the one the session holds
StatePasses(state) == state = auth_state

\* lines 146-181: handle_callback on the query parameters code and state;
\* lines 98-120 and 122-144 give the token and the user, or None
HandleCallback ==
    \E code \in {None} \cup AuthCodes, state \in {None} \cup StateValues,
       token_ok \in BOOLEAN, user_ok \in BOOLEAN :
        LET pass == code # None /\ StatePasses(state)
            exchange == pass /\ msal_ready
            login == exchange /\ token_ok /\ user_ok
        IN  /\ auth_user' = IF login THEN code ELSE auth_user
            /\ auth_token' = IF login THEN code ELSE auth_token
            /\ last_callback' =
                 [code |-> code, state |-> state,
                  state_issued |-> state \in issued_states,
                  exchanged |-> exchange,
                  changed |-> login]
            /\ UNCHANGED <<msal_ready, auth_state, issued_states>>

\* lines 219-222: the Logout button of the user menu
LogoutButton ==
    /\ auth_user # None
    /\ auth_user' = None
    /\ auth_token' = None
    /\ UNCHANGED <<msal_ready, auth_state, issued_states, last_callback>>

\* lines 224-228: logout
Logout ==
    /\ auth_user' = None
    /\ auth_token' = None
    /\ auth_state' = None
    /\ UNCHANGED <<msal_ready, issued_states, last_callback>>

AuthNext == GetAuthorizationUrl \/ HandleCallback \/ LogoutButton \/ Logout

\* ---------------------------------------------------------- specifications
vars == <<pdfVars, taskVars, groupVars, mergeVars, batchVars, bulkVars, invoiceVars, factoryVars, tenderVars, detailedVars, compareVars, csvVars, coerceVars, itemVars, fenceVars, marketVars, clientVars, modelVars, authVars>>

\* text acquisition: calls of extract_text_from_pdf in one process
InitPdf ==
    /\ PdfInit
    /\ TaskOff
    /\ GroupOff
    /\ MergeOff
    /\ BatchOff
    /\ BulkInit
    /\ InvoiceInit
    /\ FactoryInit
    /\ TenderInit
    /\ DetailedInit
    /\ CompareOff
    /\ CsvOff
    /\ CoerceOff
    /\ ItemOff
    /\ FenceOff
    /\ MarketOff
    /\ ClientOff
    /\ ModelOff
    /\ AuthOff
NextPdf == PdfNext /\ UNCHANGED <<taskVars, groupVars, mergeVars, batchVars, bulkVars, invoiceVars, factoryVars, tenderVars, detailedVars, compareVars, csvVars, coerceVars, itemVars, fenceVars, marketVars, clientVars, modelVars, authVars>>
SpecPdf == InitPdf /\ [][NextPdf]_vars

\* one call of a task function on one LLM response
InitTask ==
    /\ PdfOff
    /\ TaskInit
    /\ GroupOff
    /\ MergeOff
    /\ BatchOff
    /\ BulkInit
    /\ InvoiceInit
    /\ FactoryInit
    /\ TenderInit
    /\ DetailedInit
    /\ CompareOff
    /\ CsvOff
    /\ CoerceOff
    /\ ItemOff
    /\ FenceOff
    /\ MarketOff
    /\ ClientOff
    /\ ModelOff
    /\ AuthOff
NextTask == TaskNext /\ UNCHANGED <<pdfVars, groupVars, mergeVars, batchVars, bulkVars, invoiceVars, factoryVars, tenderVars, detailedVars, compareVars, csvVars, coerceVars, itemVars, fenceVars, marketVars, clientVars, modelVars, authVars>>
SpecTask == InitTask /\ [][NextTask]_vars

\* one call of group_similar_products
InitGroup ==
    /\ PdfOff
    /\ TaskOff
    /\ GroupInit
    /\ MergeOff
    /\ BatchOff
    /\ BulkInit
    /\ InvoiceInit
    /\ FactoryInit
    /\ TenderInit
    /\ DetailedInit
    /\ CompareOff
    /\ CsvOff
    /\ CoerceOff
    /\ ItemOff
    /\ FenceOff
    /\ MarketOff
    /\ ClientOff
    /\ ModelOff
    /\ AuthOff
NextGroup == GroupNext /\ UNCHANGED <<pdfVars, taskVars, mergeVars, batchVars, bulkVars, invoiceVars, factoryVars, tenderVars, detailedVars, compareVars, csvVars, coerceVars, itemVars, fenceVars, marketVars, clientVars, modelVars, authVars>>
SpecGroup == InitGroup /\ [][NextGroup]_vars

\* one call of _merge_tender_analyses
InitMerge ==
    /\ PdfOff
    /\ TaskOff
    /\ GroupOff
    /\ MergeInit
    /\ BatchOff
    /\ BulkInit
    /\ InvoiceInit
    /\ FactoryInit
    /\ TenderInit
    /\ DetailedInit
    /\ CompareOff
    /\ CsvOff
    /\ CoerceOff
    /\ ItemOff
    /\ FenceOff
    /\ MarketOff
    /\ ClientOff
    /\ ModelOff
    /\ AuthOff
NextMerge == MergeNext /\ UNCHANGED <<pdfVars, taskVars, groupVars, batchVars, bulkVars, invoiceVars, factoryVars, tenderVars, detailedVars, compareVars, csvVars, coerceVars, itemVars, fenceVars, marketVars, clientVars, modelVars, authVars>>
SpecMerge == InitMerge /\ [][NextMerge]_vars

\* a session on the bulk upload page
InitBulk ==
    /\ PdfOff
    /\ TaskOff
    /\ GroupOff
    /\ MergeOff
    /\ BatchInit
    /\ BulkInit
    /\ InvoiceInit
    /\ FactoryInit
    /\ TenderInit
    /\ DetailedInit
    /\ CompareOff
    /\ CsvOff
    /\ CoerceOff
    /\ ItemOff
    /\ FenceOff
    /\ MarketOff
    /\ ClientOff
    /\ ModelOff
    /\ AuthOff
NextBulk == BulkNext /\ UNCHANGED <<pdfVars, taskVars, groupVars, mergeVars, invoiceVars, factoryVars, tenderVars, detailedVars, compareVars, csvVars, coerceVars, itemVars, fenceVars, marketVars, clientVars, modelVars, authVars>>
SpecBulk == InitBulk /\ [][NextBulk]_vars

\* a session on the invoice upload page
InitInvoice ==
    /\ PdfOff
    /\ TaskOff
    /\ GroupOff
    /\ MergeOff
    /\ BatchInit
    /\ BulkInit
    /\ InvoiceInit
    /\ FactoryInit
    /\ TenderInit
    /\ DetailedInit
    /\ CompareOff
    /\ CsvOff
    /\ CoerceOff
    /\ ItemOff
    /\ FenceOff
    /\ MarketOff
    /\ ClientOff
    /\ ModelOff
    /\ AuthOff
NextInvoice == InvoiceNext /\ UNCHANGED <<pdfVars, taskVars, groupVars, mergeVars, bulkVars, factoryVars, tenderVars, detailedVars, compareVars, csvVars, coerceVars, itemVars, fenceVars, marketVars, clientVars, modelVars, authVars>>
SpecInvoice == InitInvoice /\ [][NextInvoice]_vars

\* a session on the factory certificate comparison page
InitFactory ==
    /\ PdfOff
    /\ TaskOff
    /\ GroupOff
    /\ MergeOff
    /\ BatchInit
    /\ BulkInit
    /\ InvoiceInit
    /\ FactoryInit
    /\ TenderInit
    /\ DetailedInit
    /\ CompareOff
    /\ CsvOff
    /\ CoerceOff
    /\ ItemOff
    /\ FenceOff
    /\ MarketOff
    /\ ClientOff
    /\ ModelOff
    /\ AuthOff
NextFactory == FactoryNext /\ UNCHANGED <<pdfVars, taskVars, groupVars, mergeVars, bulkVars, invoiceVars, tenderVars, detailedVars, compareVars, csvVars, coerceVars, itemVars, fenceVars, marketVars, clientVars, modelVars, authVars>>
SpecFactory == InitFactory /\ [][NextFactory]_vars

\* a session on the tender analysis page
InitTender ==
    /\ PdfOff
    /\ TaskOff
    /\ GroupOff
    /\ MergeOff
    /\ BatchInit
    /\ BulkInit
    /\ InvoiceInit
    /\ FactoryInit
    /\ TenderInit
    /\ DetailedInit
    /\ CompareOff
    /\ CsvOff
    /\ CoerceOff
    /\ ItemOff
    /\ FenceOff
    /\ MarketOff
    /\ ClientOff
    /\ ModelOff
    /\ AuthOff
NextTender == TenderNext /\ UNCHANGED <<pdfVars, taskVars, groupVars, mergeVars, bulkVars, invoiceVars, factoryVars, detailedVars, compareVars, csvVars, coerceVars, itemVars, fenceVars, marketVars, clientVars, modelVars, authVars>>
SpecTender == InitTender /\ [][NextTender]_vars

\* a session on the detailed analysis page
InitDetailed ==
    /\ PdfOff
    /\ TaskOff
    /\ GroupOff
    /\ MergeOff
    /\ BatchInit
    /\ BulkInit
    /\ InvoiceInit
    /\ FactoryInit
    /\ TenderInit
    /\ DetailedInit
    /\ CompareOff
    /\ CsvOff
    /\ CoerceOff
    /\ ItemOff
    /\ FenceOff
    /\ MarketOff
    /\ ClientOff
    /\ ModelOff
    /\ AuthOff
NextDetailed == DetailedNext /\ UNCHANGED <<pdfVars, taskVars, groupVars, mergeVars, bulkVars, invoiceVars, factoryVars, tenderVars, compareVars, csvVars, coerceVars, itemVars, fenceVars, marketVars, clientVars, modelVars, authVars>>
SpecDetailed == InitDetailed /\ [][NextDetailed]_vars

\* one call of a comparison function on one LLM response
InitCompare ==
    /\ PdfOff
    /\ TaskOff
    /\ GroupOff
    /\ MergeOff
    /\ BatchOff
    /\ BulkInit
    /\ InvoiceInit
    /\ FactoryInit
    /\ TenderInit
    /\ DetailedInit
    /\ CompareInit
    /\ CsvOff
    /\ CoerceOff
    /\ ItemOff
    /\ FenceOff
    /\ MarketOff
    /\ ClientOff
    /\ ModelOff
    /\ AuthOff
NextCompare == CompareNext /\ UNCHANGED <<pdfVars, taskVars, groupVars, mergeVars, batchVars, bulkVars, invoiceVars, factoryVars, tenderVars, detailedVars, csvVars, coerceVars, itemVars, fenceVars, marketVars, clientVars, modelVars, authVars>>
SpecCompare == InitCompare /\ [][NextCompare]_vars

\* one detailed CSV export and its re-parse
InitCsv ==
    /\ PdfOff
    /\ TaskOff
    /\ GroupOff
    /\ MergeOff
    /\ BatchOff
    /\ BulkInit
    /\ InvoiceInit
    /\ FactoryInit
    /\ TenderInit
    /\ DetailedInit
    /\ CompareOff
    /\ CsvInit
    /\ CoerceOff
    /\ ItemOff
    /\ FenceOff
    /\ MarketOff
    /\ ClientOff
    /\ ModelOff
    /\ AuthOff
NextCsv == CsvNext /\ UNCHANGED <<pdfVars, taskVars, groupVars, mergeVars, batchVars, bulkVars, invoiceVars, factoryVars, tenderVars, detailedVars, compareVars, coerceVars, itemVars, fenceVars, marketVars, clientVars, modelVars, authVars>>
SpecCsv == InitCsv /\ [][NextCsv]_vars

\* the parameter normalization of extract_specifications_from_text
InitCoerce ==
    /\ PdfOff
    /\ TaskOff
    /\ GroupOff
    /\ MergeOff
    /\ BatchOff
    /\ BulkInit
    /\ InvoiceInit
    /\ FactoryInit
    /\ TenderInit
    /\ DetailedInit
    /\ CompareOff
    /\ CsvOff
    /\ CoerceInit
    /\ ItemOff
    /\ FenceOff
    /\ MarketOff
    /\ ClientOff
    /\ ModelOff
    /\ AuthOff
NextCoerce == CoerceNext /\ UNCHANGED <<pdfVars, taskVars, groupVars, mergeVars, batchVars, bulkVars, invoiceVars, factoryVars, tenderVars, detailedVars, compareVars, csvVars, itemVars, fenceVars, marketVars, clientVars, modelVars, authVars>>
SpecCoerce == InitCoerce /\ [][NextCoerce]_vars

\* the product normalization of extract_client_and_products_from_invoices
InitItems ==
    /\ PdfOff
    /\ TaskOff
    /\ GroupOff
    /\ MergeOff
    /\ BatchOff
    /\ BulkInit
    /\ InvoiceInit
    /\ FactoryInit
    /\ TenderInit
    /\ DetailedInit
    /\ CompareOff
    /\ CsvOff
    /\ CoerceOff
    /\ ItemInit
    /\ FenceOff
    /\ MarketOff
    /\ ClientOff
    /\ ModelOff
    /\ AuthOff
NextItems == ItemNext /\ UNCHANGED <<pdfVars, taskVars, groupVars, mergeVars, batchVars, bulkVars, invoiceVars, factoryVars, tenderVars, detailedVars, compareVars, csvVars, coerceVars, fenceVars, marketVars, clientVars, modelVars, authVars>>
SpecItems == InitItems /\ [][NextItems]_vars

\* the clean-up of one reply before json.loads
InitFence ==
    /\ PdfOff
    /\ TaskOff
    /\ GroupOff
    /\ MergeOff
    /\ BatchOff
    /\ BulkInit
    /\ InvoiceInit
    /\ FactoryInit
    /\ TenderInit
    /\ DetailedInit
    /\ CompareOff
    /\ CsvOff
    /\ CoerceOff
    /\ ItemOff
    /\ FenceInit
    /\ MarketOff
    /\ ClientOff
    /\ ModelOff
    /\ AuthOff
NextFence == FenceNext /\ UNCHANGED <<pdfVars, taskVars, groupVars, mergeVars, batchVars, bulkVars, invoiceVars, factoryVars, tenderVars, detailedVars, compareVars, csvVars, coerceVars, itemVars, marketVars, clientVars, modelVars, authVars>>
SpecFence == InitFence /\ [][NextFence]_vars

\* calls of analyze_market_situation
InitMarket ==
    /\ PdfOff
    /\ TaskOff
    /\ GroupOff
    /\ MergeOff
    /\ BatchOff
    /\ BulkInit
    /\ InvoiceInit
    /\ FactoryInit
    /\ TenderInit
    /\ DetailedInit
    /\ CompareOff
    /\ CsvOff
    /\ CoerceOff
    /\ ItemOff
    /\ FenceOff
    /\ MarketInit
    /\ ClientOff
    /\ ModelOff
    /\ AuthOff
NextMarket == MarketNext /\ UNCHANGED <<pdfVars, taskVars, groupVars, mergeVars, batchVars, bulkVars, invoiceVars, factoryVars, tenderVars, detailedVars, compareVars, csvVars, coerceVars, itemVars, fenceVars, clientVars, modelVars, authVars>>
SpecMarket == InitMarket /\ [][NextMarket]_vars

\* the sessions of one process reading azure_config.client
InitClient ==
    /\ PdfOff
    /\ TaskOff
    /\ GroupOff
    /\ MergeOff
    /\ BatchOff
    /\ BulkInit
    /\ InvoiceInit
    /\ FactoryInit
    /\ TenderInit
    /\ DetailedInit
    /\ CompareOff
    /\ CsvOff
    /\ CoerceOff
    /\ ItemOff
    /\ FenceOff
    /\ MarketOff
    /\ ClientInit
    /\ ModelOff
    /\ AuthOff
NextClient == ClientNext /\ UNCHANGED <<pdfVars, taskVars, groupVars, mergeVars, batchVars, bulkVars, invoiceVars, factoryVars, tenderVars, detailedVars, compareVars, csvVars, coerceVars, itemVars, fenceVars, marketVars, modelVars, authVars>>
SpecClient == InitClient /\ [][NextClient]_vars

\* the extraction calls of one process sharing _deepseek_model
InitModel ==
    /\ PdfOff
    /\ TaskOff
    /\ GroupOff
    /\ MergeOff
    /\ BatchOff
    /\ BulkInit
    /\ InvoiceInit
    /\ FactoryInit
    /\ TenderInit
    /\ DetailedInit
    /\ CompareOff
    /\ CsvOff
    /\ CoerceOff
    /\ ItemOff
    /\ FenceOff
    /\ MarketOff
    /\ ClientOff
    /\ ModelInit
    /\ AuthOff
NextModel == ModelNext /\ UNCHANGED <<pdfVars, taskVars, groupVars, mergeVars, batchVars, bulkVars, invoiceVars, factoryVars, tenderVars, detailedVars, compareVars, csvVars, coerceVars, itemVars, fenceVars, marketVars, clientVars, authVars>>
SpecModel == InitModel /\ [][NextModel]_vars

\* one session of the MSAL login
InitAuth ==
    /\ PdfOff
    /\ TaskOff
    /\ GroupOff
    /\ MergeOff
    /\ BatchOff
    /\ BulkInit
    /\ InvoiceInit
    /\ FactoryInit
    /\ TenderInit
    /\ DetailedInit
    /\ CompareOff
    /\ CsvOff
    /\ CoerceOff
    /\ ItemOff
    /\ FenceOff
    /\ MarketOff
    /\ ClientOff
    /\ ModelOff
    /\ AuthInit
NextAuth == AuthNext /\ UNCHANGED <<pdfVars, taskVars, groupVars, mergeVars, batchVars, bulkVars, invoiceVars, factoryVars, tenderVars, detailedVars, compareVars, csvVars, coerceVars, itemVars, fenceVars, marketVars, clientVars, modelVars>>
SpecAuth == InitAuth /\ [][NextAuth]_vars

\* ------------------------------------------------------------------ claims

\* C1: extract_text_from_pdf returns a string for every input and no
\* exception escapes to the caller.
C1_NoExceptionEscapes == pc = "done" => (~raised /\ ret # NoRet)

\* C2: OCR fallback is started if and only if native extraction has finished
\* over all pages and its concatenated text is empty or all whitespace; if any
\* page gave non-whitespace native text no OCR engine is ever invoked.
C2_FallbackTrigger ==
    /\ ocr_started =>
         (native_done /\ page <= n_pages /\ Len(native_text) <= n_pages
          /\ Strip(native_text) = <<>>)
    /\ (native_done /\ pc # "check" /\ Strip(native_text) = <<>>) => ocr_started
    /\ Strip(native_text) # <<>> => (~ocr_started /\ engine_log = <<>>)
    /\ ~native_done => (~ocr_started /\ engine_log = <<>>)

\* C2 witness: a two-page document whose native text is whitespace only has
\* reached the OCR engines.
C2_Witness ==
    ocr_started /\ n_pages = 2 /\ native_text = <<" ">> /\ engine_log # <<>>

\* C3: a temporary PDF file created by the call no longer exists when the
\* call ends, on every exit path.
C3_TempFileRemoved == (pc = "done" /\ tmp_created) => ~tmp_exists

\* C4: when the LLM call fails or its response is not valid JSON, the task
\* function returns an object with an `error` key and every key of the task's
\* result schema.
C4_FailureKeepsSchema ==
    (task_result # Pending /\ task_resp.kind \in {"raise", "invalid"}) =>
        /\ task_result.kind = "dict"
        /\ "error" \in DOMAIN task_result.d
        /\ Schema(task) \subseteq DOMAIN task_result.d

\* C5: when the model returns a JSON object that lacks some of the task's
\* required top-level keys, the result has every required key, and a key the
\* object lacked holds a default, not a model value and not null.
C5_MissingKeysDefaulted ==
    (task_result # Pending /\ task_resp.kind = "object") =>
        /\ task_result.kind = "dict"
        /\ \A k \in Schema(task) :
              /\ k \in DOMAIN task_result.d
              /\ k \notin DOMAIN task_resp.obj
                   => task_result.d[k] \notin {"v", "null"}

\* C6: no top-level field of a returned task result is null.
C6_NoNullTopLevel ==
    task_result.kind = "dict" =>
        \A k \in DOMAIN task_result.d : task_result.d[k] # "null"

\* C7: group_similar_products keeps exactly the proposed groups whose ids
\* reach two products of different clients in the product list, in the
\* proposed order and unchanged (canonical_name included); every other
\* proposed group is dropped.
SpansTwoClients(g) ==
    \E i \in 1..Len(g.product_ids), j \in 1..Len(g.product_ids) :
        /\ g.product_ids[i] \in 0..(Len(products_list) - 1)
        /\ g.product_ids[j] \in 0..(Len(products_list) - 1)
        /\ products_list[g.product_ids[i] + 1] # products_list[g.product_ids[j] + 1]

RealDocs(f) ==
    {k \in 1..Len(merge_docs) :
        f \in DOMAIN merge_docs[k] /\ merge_docs[k][f] \notin {"", TenderSentinel}}

Earliest(S) == CHOOSE k \in S : \A m \in S : k <= m

C8_MergePrecedence ==
    merged.done =>
        \A f \in MergeFields :
            IF RealDocs(f) # {}
              THEN /\ f \in DOMAIN merged.extracted
                   /\ merged.extracted[f] = merge_docs[Earliest(RealDocs(f))][f]
              ELSE /\ f \in DOMAIN merged.extracted
                        => merged.extracted[f] \in {"", TenderSentinel}
                   /\ f \in DOMAIN merged.extracted
                        <=> \E k \in 1..Len(merge_docs) : f \in DOMAIN merge_docs[k]

\* C8 witness: the first document has the sentinel for A, the second a real
\* value and the third another real value; the merge took the second's.
C8_Witness ==
    /\ merged.done
    /\ Len(merge_docs) = 3
    /\ "A" \in DOMAIN merge_docs[1] /\ merge_docs[1]["A"] = TenderSentinel
    /\ "A" \in DOMAIN merge_docs[2] /\ merge_docs[2]["A"] = "X"
    /\ "A" \in DOMAIN merge_docs[3] /\ merge_docs[3]["A"] = "Y"
    /\ merged.extracted["A"] = "X"

\* extract_text_from_pdf never returns an empty or all-whitespace string: the
\* blank-text branches of the pages are not reachable through it.
PdfNeverBlank == (pc = "done" /\ ~raised) => Strip(ret) # <<>>

\* the names of the files the loop has reached, in upload order
UploadedNames == [k \in 1..Len(uploaded) |-> uploaded[k].name]

\* the run is over, by the end of the handler or by an exception leaving it
RunEnded == batch_pc \in {"done", "aborted", "crashed"}

\* C9: after a batch run over N uploaded files the run's result list holds
\* exactly N entries, one per input file in upload order, and what the session
\* shows afterwards is the result of this run, not of an earlier one.  Stated
\* on the factory comparison page, whose result list is file_texts.
C9_EntryPerFile ==
    RunEnded =>
        /\ Len(file_texts) = n_files
        /\ [k \in 1..Len(file_texts) |-> file_texts[k][1]] = UploadedNames
        /\ comparison_result.present =>
             (batch_pc = "done"
              /\ comparison_result.files = {UploadedNames[k] : k \in 1..n_files})

\* the same statement on the bulk page and on the invoice page, where it holds
BulkEntryPerFile ==
    RunEnded =>
        /\ Len(bulk_results) = n_files
        /\ [k \in 1..Len(bulk_results) |-> bulk_results[k].file_name] = UploadedNames
        /\ \A k \in 1..Len(bulk_results) :
             bulk_results[k].status \in {"success", "failed"}

InvoiceEntryPerFile ==
    RunEnded =>
        /\ Len(invoice_results) = n_files
        /\ [k \in 1..Len(invoice_results) |-> invoice_results[k].file_name]
             = UploadedNames
        /\ \A k \in 1..Len(invoice_results) :
             invoice_results[k].status \in {"success", "failed"}

\* C10: a failure while processing one document of a batch never stops the
\* batch: once the loop has started, the run ends with every document of the
\* batch processed and with a result of its own.  Stated on the tender page.
C10_FailureIsLocal ==
    batch_pc \in {"done", "crashed"} =>
        /\ Len(uploaded) = n_files
        /\ Len(run_results) = n_files
        /\ [k \in 1..Len(run_results) |-> run_results[k].file_name] = UploadedNames

\* the same statement on the bulk page (BulkEntryPerFile) and on the detailed
\* page, where it holds: no run of these pages ends by an exception
DetailedEntryPerFile ==
    /\ batch_pc # "crashed"
    /\ RunEnded =>
         /\ Len(analysis_results) = n_files
         /\ [k \in 1..Len(analysis_results) |-> analysis_results[k].file_name]
              = UploadedNames

BulkNeverCrashes == batch_pc # "crashed"

\* a text extract_text_from_pdf returns in place of the document's content
ErrorTagged(text) == text \in {PdfReadError, PdfEmptyUpload, OcrNoText, OcrError}

Unreadable(text) == Strip(text) = <<>> \/ ErrorTagged(text)

LoggedEvents == {batch_log[i] : i \in 1..Len(batch_log)}

\* C11: in the bulk run a document whose extracted text is all whitespace or
\* an error-tagged string is marked failed and no AI extraction call is made
\* for it.
C11_UnreadableSkipsAi ==
    \A k \in 1..Len(bulk_results) :
        (~uploaded[k].ext.raised /\ Unreadable(uploaded[k].ext.text)) =>
            /\ bulk_results[k].status = "failed"
            /\ <<"ai", k>> \notin LoggedEvents

\* C12: every document that fails stays in the result list as an entry tagged
\* failed with a non-empty error field.  Stated on the invoice page: a file
\* whose processing did not end in a normal result has such an entry.
C12_FailedCarriesReason ==
    \A k \in 1..Len(invoice_results) :
        /\ (uploaded[k].ext.raised \/ Strip(uploaded[k].ext.text) = <<>>)
             => invoice_results[k].status = "failed"
        /\ invoice_results[k].status = "failed"
             => invoice_results[k].error \notin {"<absent>", "", "None"}

\* the same statement on the bulk page, where it holds
BulkFailedCarriesReason ==
    \A k \in 1..Len(bulk_results) :
        /\ (uploaded[k].ext.raised \/ Strip(uploaded[k].ext.text) = <<>>
            \/ (ReachesAi(uploaded[k].ext) /\ configured
                /\ uploaded[k].ai.kind = "array"))
             => bulk_results[k].status = "failed"
        /\ bulk_results[k].status = "failed"
             => bulk_results[k].error \notin {"<absent>", "", "None"}

\* C13: for each compared parameter the status of the comparison result
\* follows from the numbers: OK when the measured value lies within
\* [spec_min, spec_max] or within nominal +/- tolerance, OUT with a non-empty
\* deviation when it lies outside, MISSING when a specified parameter has no
\* measurement, NO_SPEC when a measurement has no specification.
C13_StatusFollowsNumbers ==
    cmp_result.called =>
        \A k \in 1..Len(cmp_result.comparisons) :
            LET r == cmp_result.comparisons[k] IN
            /\ r.status = StatusFromNumbers(r)
            /\ r.status = "OUT" => r.deviation # ""

\* the data rows of the re-parse: every row after the header
DataRows == IF csv_rows = <<>> THEN <<>> ELSE Tail(csv_rows)

RECURSIVE ProductCount(_)
ProductCount(results) ==
    IF results = <<>> THEN 0
    ELSE Len(Head(results).products) + ProductCount(Tail(results))

\* the documents that hold no product: failed ones and successes without any
RECURSIVE ProductlessCount(_)
ProductlessCount(results) ==
    IF results = <<>> THEN 0
    ELSE (IF Head(results).products = <<>> THEN 1 ELSE 0)
         + ProductlessCount(Tail(results))

\* what a reader expects of an exported value: its text, None read back as
\* the empty string, a missing key as the column's default
ExpectedText(v, dflt) ==
    IF v.kind = "absent" THEN dflt
    ELSE IF v.kind = "none" THEN <<>>
    ELSE v.chars

\* the product rows the results hold, in document order and product order:
\* <<product name, quantity>> as texts
RECURSIVE ProductTexts(_)
ProductTexts(results) ==
    IF results = <<>> THEN <<>>
    ELSE [k \in 1..Len(Head(results).products) |->
            <<ExpectedText(Head(results).products[k].product_name, <<"Unknown">>),
              ExpectedText(Head(results).products[k].quantity, <<"Not specified">>)>>]
         \o ProductTexts(Tail(results))

IsProductRow(row) ==
    row[2] = <<"success">> /\ row[5] # <<"No products detected">>

ParsedProductTexts ==
    LET rows == SelectSeq(DataRows, IsProductRow)
    IN  [k \in 1..Len(rows) |-> <<rows[k][5], rows[k][6]>>]

C15_NumericOrNull ==
    norm_result.called =>
        /\ norm_result.error => norm_result.parameters = <<>>
        /\ ~norm_result.error => Len(norm_result.parameters) = Len(raw_params)
        /\ \A k \in 1..Len(norm_result.parameters), f \in NumericFields :
             LET v == norm_result.parameters[k][f] IN
             /\ v \in {"number", "null"}
             /\ raw_params[k][f] \in {"other_string", "list", "absent", "null"}
                  => v = "null"
             /\ raw_params[k][f] \in {"int", "float", "numeric_string"}
                  => v = "number"

\* C15 witness: a parameter whose spec_min was a string that is no number was
\* returned with spec_min null.
C15_Witness ==
    /\ norm_result.called
    /\ ~norm_result.error
    /\ Len(raw_params) = 1
    /\ raw_params[1]["spec_min"] = "other_string"
    /\ norm_result.parameters[1]["spec_min"] = "null"

\* C16: every entry of the products list returned by
\* extract_client_and_products_from_invoices carries all nine item keys,
\* whatever subset of them the model supplied for it, with the supplied values
\* kept; entries supplied with keys among the nine all have the same key set.
C16_ItemKeysComplete ==
    item_result.called =>
        /\ ~item_result.error => Len(item_result.products) = Len(raw_items)
        /\ \A k \in 1..Len(item_result.products) :
             LET e == item_result.products[k] IN
             /\ ItemKeys \subseteq DOMAIN e
             /\ \A key \in DOMAIN raw_items[k].d : e[key] = raw_items[k].d[key]
             /\ DOMAIN raw_items[k].d \subseteq ItemKeys => DOMAIN e = ItemKeys

\* C16 witness: an entry supplied with the product name alone was returned
\* with the nine keys.
C16_Witness ==
    /\ item_result.called
    /\ Len(raw_items) = 1
    /\ raw_items[1].kind = "object"
    /\ DOMAIN raw_items[1].d = {"product_name"}
    /\ DOMAIN item_result.products[1] = ItemKeys
    /\ item_result.products[1]["unit"] = "Not specified"

\* the pages the OCR loop has handed to an engine
OcrPagesDone == {engine_log[i][1] : i \in 1..Len(engine_log)}

OcrLoopCompleted == ocr_started /\ OcrPagesDone = 1..n_pages

\* the OCR helper opened the document
OcrOpened == ocr_started /\ (page < n_pages \/ engine_log # <<>>)

\* C17: if OCR of one page fails (rasterizing it, or an engine raising), that
\* page contributes no text and the remaining pages are still processed; text
\* obtained from other pages is kept in the returned result.
C17_OcrPageFailureIsLocal ==
    (pc = "done" /\ ~raised /\ OcrOpened) =>
        /\ OcrLoopCompleted
        /\ Strip(ocr_text) # <<>> => ret = ocr_text

C19_NoBatchWithoutConfig ==
    ~configured =>
        /\ batch_log = <<>>
        /\ bulk_results = <<>>
        /\ batch_pc \notin {"loop", "done"}

\* C20: when the uploaded tender template has no labeled cell, the tender
\* analysis is aborted: no tender document is extracted or sent to the LLM
\* and no results are stored for that run.
C20_EmptyTemplateAborts ==
    desired_fields = "no_fields" =>
        /\ batch_log = <<>>
        /\ run_results = <<>>
        /\ tender_results # "this"
        /\ batch_pc \notin {"loop", "done", "crashed"}

\* the fenced blocks of a text: fences pair up from the left, an odd fence
\* opens a block that the next fence (or the end of the text) closes
FenceAt(t) == {i \in 1..Len(t) : t[i] = Fence}
Openers(t) ==
    {i \in FenceAt(t) : Cardinality({j \in FenceAt(t) : j <= i}) % 2 = 1}
CloserOf(t, i) ==
    LET later == {j \in FenceAt(t) : j > i} \cup {Len(t) + 1}
    IN  CHOOSE j \in later : \A k \in later : j <= k
JsonOpeners(t) == {i \in Openers(t) : i < Len(t) /\ t[i + 1] = "json"}
FirstOf(S) == CHOOSE i \in S : \A j \in S : i <= j
\* what the block opened at i holds (after the json mark for a marked block)
BlockContent(t, i) ==
    SubSeq(t, IF i \in JsonOpeners(t) THEN i + 2 ELSE i + 1, CloserOf(t, i) - 1)
ChosenText(t) ==
    IF JsonOpeners(t) # {} THEN Strip(BlockContent(t, FirstOf(JsonOpeners(t))))
    ELSE IF Openers(t) # {} THEN Strip(BlockContent(t, FirstOf(Openers(t))))
    ELSE t

\* C21: the text handed to the JSON parser is the content of the first fenced
\* block marked json if the trimmed reply has one, else the content of its
\* first fenced block of any kind, else the whole trimmed reply; nothing
\* outside the chosen fence is parsed.
C21_ParsedTextIsChosenFence ==
    fence_fn # "" => fence_parsed = ChosenText(Strip(fence_reply))

\* the same, for the replies in which the json mark follows opening fences only
CleanReplyOnWellFormed ==
    (fence_fn # "" /\ Occurrences(Strip(fence_reply), <<Fence, "json">>)
                         \subseteq Openers(Strip(fence_reply))) =>
        fence_parsed = ChosenText(Strip(fence_reply))

GroupCalls == {i \in 1..Len(batch_log) : batch_log[i] = <<"group", 0>>}
Terminal(results) ==
    \A k \in 1..Len(results) : results[k].status \in {"success", "failed"}

\* C22: in bulk processing the grouping call and the counts are made only
\* after every uploaded document has its entry tagged success or failed: no
\* grouping call while a document is unprocessed, none followed by the
\* processing of a document, and at most one grouping call per batch.
C22_AggregatesAfterAllDocuments ==
    /\ Cardinality(GroupCalls) <= 1
    /\ \A i \in GroupCalls :
         /\ i = Len(batch_log)
         /\ \A k \in 1..n_files :
              \E j \in 1..(i - 1) : batch_log[j] = <<"extract", k>>
         /\ Len(bulk_results) = n_files
         /\ Terminal(bulk_results)
    /\ bulk_metrics # <<>> =>
         /\ Len(bulk_results) = n_files
         /\ Terminal(bulk_results)
         /\ bulk_metrics = SummaryStatistics(bulk_results)
         /\ bulk_metrics[1] = n_files

C22_Witness ==
    /\ batch_pc = "done"
    /\ n_files = 2
    /\ GroupCalls # {}
    /\ bulk_metrics = <<2, 1, 1>>

\* the documents of the run whose LLM call or JSON parse failed
AiFailed ==
    {k \in 1..Len(uploaded) :
        ReachesAi(uploaded[k].ext) /\ uploaded[k].ai.kind = "error"}

\* C23: in bulk processing an entry tagged success never carries an AI error:
\* a document whose LLM call or JSON parse failed is not counted as
\* successfully processed and contributes no product to the grouping list.
\* Stated for a session whose LLM client is configured.
C23_SuccessCarriesNoAiError ==
    configured =>
        /\ \A k \in 1..Len(bulk_results) :
             bulk_results[k].status = "success" => bulk_results[k].error = "None"
        /\ \A k \in AiFailed :
             /\ bulk_results[k].status # "success"
             /\ bulk_results[k].products = <<>>
        /\ bulk_metrics # <<>> =>
             bulk_metrics[2] <= Len(bulk_results) - Cardinality(AiFailed)

\* the events of one engine on one page
EngineEvents(p, engine) ==
    {i \in 1..Len(engine_log) :
        engine_log[i][1] = p /\ engine_log[i][2] = engine}

\* the text the logged engine runs contributed, in order
RECURSIVE Contributed(_)
Contributed(log) ==
    IF log = <<>> THEN <<>>
    ELSE Contributed(SubSeq(log, 1, Len(log) - 1))
         \o (LET e == log[Len(log)] IN
              IF e[3] # "text" THEN <<>>
              ELSE IF e[2] = "deepseek" THEN <<"d", "\n">> ELSE <<"t", "\n">>)

\* the order of the engines during the OCR fallback: pages in document
\* order, no page twice, DeepSeek first when it is available, Tesseract only
\* after DeepSeek raised or gave nothing, text from one engine per page
OcrEngineOrder ==
    /\ \A i, j \in 1..Len(engine_log) :
         i < j => engine_log[i][1] <= engine_log[j][1]
    /\ \A p \in 1..MaxPages :
         /\ Cardinality(EngineEvents(p, "deepseek")) <= 1
         /\ Cardinality(EngineEvents(p, "tesseract")) <= 1
         /\ ~transformers_available => EngineEvents(p, "deepseek") = {}
         /\ \A i \in EngineEvents(p, "tesseract") :
              transformers_available =>
                  /\ i > 1
                  /\ engine_log[i - 1][1] = p
                  /\ engine_log[i - 1][2] = "deepseek"
                  /\ engine_log[i - 1][3] \in {"load_raises", "infer_raises", "empty"}
         /\ Cardinality({i \in 1..Len(engine_log) :
                engine_log[i][1] = p /\ engine_log[i][3] = "text"}) <= 1
    /\ pc \in {"ocr_page", "finally", "done"} /\ ocr_started =>
         ocr_text = Contributed(engine_log)

\* C24: during the OCR fallback each page is processed exactly once, in
\* document order; DeepSeek is tried first when available and Tesseract is
\* invoked for the page only if DeepSeek raised or returned nothing, so each
\* page contributes text from at most one engine.
C24_OncePerPageSecondaryFirst ==
    /\ OcrEngineOrder
    /\ (pc = "done" /\ ~raised /\ OcrOpened) =>
         \A p \in 1..n_pages :
            EngineEvents(p, "deepseek") \cup EngineEvents(p, "tesseract") # {}

MarketCalls == {i \in 1..Len(mkt_log) : mkt_log[i][1] = "call"}

\* C25: analyze_market_situation makes at most two LLM synthesis calls; the
\* second is made only after the first raised and after one backoff wait; no
\* call follows a successful one; if both raise the function returns, without
\* raising, an error-valued result with all four market fields and sources.
C25_TwoAttemptsWithBackoff ==
    /\ Cardinality(MarketCalls) <= 2
    /\ \A i \in MarketCalls :
         /\ i > 1 => /\ i = 3
                     /\ mkt_log[1] = <<"call", "raise">>
                     /\ mkt_log[2] = <<"sleep", 1>>
         /\ mkt_log[i] = <<"call", "ok">> => i = Len(mkt_log)
    /\ Cardinality({i \in MarketCalls : mkt_log[i][2] = "raise"}) = 2 =>
         /\ mkt_pc = "done"
         /\ DOMAIN mkt_result = MarketFields \cup {"sources"}
         /\ mkt_result["Vermutliche Wettbewerber"] = "Fehler bei Analyse"
         /\ mkt_result["sources"] = mkt_sources
    /\ (mkt_pc = "done" /\ mkt_result # <<>>) =>
         DOMAIN mkt_result = MarketFields \cup {"sources"}

C25_Witness ==
    /\ mkt_pc = "done"
    /\ mkt_log = << <<"call", "raise">>, <<"sleep", 1>>, <<"call", "raise">> >>
    /\ mkt_sources # <<0>>
    /\ mkt_result = MarketError(mkt_sources)

\* the properties of the handle named by C26
ClientOnce ==
    /\ constructed <= 1
    /\ client_handle \in {0, 1}
    /\ client_handle = 1 => constructed = 1
    /\ \A s \in Sessions : got[s] \in {<<>>, <<0>>, <<1>>}
    /\ \A s \in Sessions : (got[s] = <<1>>) => client_handle = 1
    /\ ~credentials =>
         /\ ~attempted
         /\ client_handle = 0
         /\ \A s \in Sessions : got[s] \in {<<>>, <<0>>}

\* C26: AzureConfig.client constructs the LLM client at most once
\* successfully; after the first successful construction every access returns
\* that handle and it is never replaced; with missing credentials None is
\* returned without a construction attempt; a failed construction leaves the
\* handle unset.
C26_ClientConstructedOnce == ClientOnce

\* the same for the sessions that are never inside the getter together
ClientOnceWithoutOverlap == ~overlapped => ClientOnce

\* one construction at most, and every page of every document read with it
ModelOnce ==
    /\ model_loads <= 1
    /\ model_handle \in {0, 1}
    /\ \A c \in Calls : infer_with[c] \subseteq {1}

\* C27: the OCR model handle is constructed at most once in a process
\* lifetime and reused for every later page and document, for every
\* interleaving of extraction calls, two calls whose first OCR use overlaps
\* included.
C27_OcrModelConstructedOnce == ModelOnce

\* the same for the calls whose loading steps never overlap
ModelOnceWithoutOverlap == ~loads_overlapped => ModelOnce

\* C28: every temp_page_N.png written during the OCR fallback has been
\* removed by the time _extract_text_with_ocr returns, whether DeepSeek
\* returned text for the page, returned nothing, or raised.
C28_PageImagesRemoved ==
    (pc \in {"finally", "done"} /\ ocr_started) => temp_imgs = {}

\* C29: handle_callback sets the authenticated user only for a callback whose
\* state equals a state value issued before by get_authorization_url in the
\* same session; a callback whose state is missing or different exchanges no
\* code and leaves auth_user and auth_token as they were, in every session
\* state, one where no state was ever issued included.
C29_CallbackNeedsIssuedState ==
    ~last_callback.state_issued =>
        /\ ~last_callback.exchanged
        /\ ~last_callback.changed

\* a callback that carries a state is accepted only with the state the session
\* holds, which was issued in this session
CallbackWithStateNeedsIssued ==
    (last_callback.state # None /\ last_callback.exchanged) =>
        last_callback.state_issued

\* the files of the running run whose text was extracted in this run
ExtractedNow == {k \in 1..Len(uploaded) : \E i \in 1..Len(batch_log) :
                    batch_log[i] = <<"extract", k>>}

\* C30: in tender analysis the text analysed for an uploaded file is the text
\* extracted from that file's own bytes, across any sequence of runs of one
\* session: the extraction cache never gives the text of a different
\* document, and extraction runs at most once per cached file.
C30_CacheGivesOwnText ==
    /\ \A k \in 1..Len(run_results) :
         run_results[k].text = <<uploaded[k].content>>
    /\ \A j, k \in ExtractedNow :
         (j < k /\ j <= Len(run_results)) =>
             CacheKey(uploaded[j]) # CacheKey(uploaded[k])

\* the cache is sound for the documents it was filled from
CacheGivesTextOfFirstDocument ==
    \A j, k \in 1..Len(run_results) :
        (j < k /\ CacheKey(uploaded[j]) = CacheKey(uploaded[k])) =>
            run_results[k].text = run_results[j].text
====
